---- MODULE Spec2Model ----
(***************************************************************************)
(* Terra-Prism: the interactive plan viewer (internal/tui/model.go) as a   *)
(* state machine.  The Bubble Tea event loop holds one Model value and     *)
(* replaces it by the result of Model.Update for every message; the model  *)
(* below keeps that Model value in the variable m, and one action per      *)
(* message type.                                                           *)
(*                                                                         *)
(* Go slices and indices are 0-based: a Go slice is a TLA+ sequence whose  *)
(* element i (0-based) is s[i+1]; cursors and match positions keep their   *)
(* 0-based Go values.  A Go string is a sequence of one-character strings. *)
(***************************************************************************)
EXTENDS Integers, Sequences, FiniteSets, TLC

VARIABLES
    plan,           \* parser.Plan.Resources: the immutable input of the viewer
    m,              \* the tui.Model value held by the event loop
    status,         \* "running", "quit" (tea.Quit was returned) or "panic"
    updatePending,  \* the background update check has a message to deliver
    nEvents,        \* number of messages processed so far
    last,           \* history: kind of the last message; class of the last key
                    \* and the mode it was dispatched in
    prevArm,        \* history: the key event before the last one armed apply
    mon,            \* history: monitor of "filter applied, then cleared"
    call            \* a call of one function of the program on its own:
                    \* its name, arguments and, once it has returned, result

vars == <<plan, m, status, updatePending, nEvents, last, prevArm, mon, call>>

----------------------------------------------------------------------------
(* Bounds of the model *)

\* messages processed in one session
MaxEvents == 5
\* characters typed into the search input
MaxQueryLen == 2
\* lowest row of the filter picker the cursor is moved to
MaxFilterRow == 1

----------------------------------------------------------------------------
(* Generic helpers *)

Range(s) == {s[i] : i \in DOMAIN s}

Front(s) == SubSeq(s, 1, Len(s) - 1)

Last(s) == s[Len(s)]

Max(a, b) == IF a > b THEN a ELSE b

Min(a, b) == IF a < b THEN a ELSE b

\* s[i] of a Go slice
At(s, i) == s[i + 1]

\* the Go slice [0, 1, ..., n-1]
Iota(n) == [i \in 1..n |-> i - 1]

----------------------------------------------------------------------------
(* Strings *)

\* byte value of the characters the model uses
Byte(c) ==
    CASE c = " " -> 32
      [] c = "." -> 46
      [] c = "A" -> 65
      [] c = "Q" -> 81
      [] c = "a" -> 97
      [] c = "g" -> 103
      [] c = "q" -> 113
      [] c = "y" -> 121
      [] OTHER -> 0

LowerChar(c) ==
    CASE c = "A" -> "a"
      [] c = "Q" -> "q"
      [] OTHER -> c

\* strings.ToLower
ToLower(s) == [i \in DOMAIN s |-> LowerChar(s[i])]

\* Go's s < t on strings: bytewise lexicographic
RECURSIVE StrLess(_, _)
StrLess(s, t) ==
    IF t = <<>> THEN FALSE
    ELSE IF s = <<>> THEN TRUE
    ELSE IF Head(s) # Head(t) THEN Byte(Head(s)) < Byte(Head(t))
    ELSE StrLess(Tail(s), Tail(t))

\* strings.Fields: the maximal runs of non-space characters
RECURSIVE FieldsAcc(_, _, _)
FieldsAcc(s, cur, acc) ==
    IF s = <<>> THEN (IF cur = <<>> THEN acc ELSE Append(acc, cur))
    ELSE IF Head(s) = " "
         THEN FieldsAcc(Tail(s), <<>>, IF cur = <<>> THEN acc ELSE Append(acc, cur))
         ELSE FieldsAcc(Tail(s), Append(cur, Head(s)), acc)

Fields(s) == FieldsAcc(s, <<>>, <<>>)

\* the loop of fuzzyMatch: i scans text, qi is the next query byte to find
RECURSIVE fuzzyLoop(_, _, _, _)
fuzzyLoop(text, query, i, qi) ==
    IF i < Len(text) /\ qi < Len(query)
    THEN fuzzyLoop(text, query, i + 1, IF At(text, i) = At(query, qi) THEN qi + 1 ELSE qi)
    ELSE qi

\* fuzzyMatch after both strings are lowered
fuzzyLowered(t, q) ==
    IF q = <<>> THEN TRUE
    ELSE fuzzyLoop(t, q, 0, 0) = Len(q)

\* the UTF-8 encoding of a character: one byte for the ASCII characters,
\* two for the accented letters and the copyright sign
Utf8(c) ==
    CASE c = "e-acute" -> <<"xC3", "xA9">>
      [] c = "a-grave" -> <<"xC3", "xA0">>
      [] c = "copyright" -> <<"xC2", "xA9">>
      [] OTHER -> <<c>>

\* the bytes of a string: Go indexes a string by byte
RECURSIVE Bytes(_)
Bytes(s) == IF s = <<>> THEN <<>> ELSE Utf8(Head(s)) \o Bytes(Tail(s))

fuzzyMatch(text, query) == fuzzyLowered(Bytes(ToLower(text)), Bytes(ToLower(query)))

----------------------------------------------------------------------------
(* parser.Action, parser.Resource, and the plans the viewer is started on *)

ActionCreate == "create"
ActionDestroy == "destroy"
ActionUpdate == "update"
ActionReplace == "replace"
ActionRead == "read"
ActionNoOp == "no-op"
ActionCreateDelete == "create-delete"
ActionDeleteCreate == "delete-create"

Action == {ActionCreate, ActionDestroy, ActionUpdate, ActionReplace, ActionRead,
           ActionNoOp, ActionCreateDelete, ActionDeleteCreate}

\* a parsed resource; RawLines is len(r.RawLines) (header plus body lines,
\* each body line short enough to render as one row)
Resource(addr, type, name, action, rawLines) ==
    [Address |-> addr, Type |-> type, Name |-> name, Action |-> action,
     RawLines |-> rawLines]

\* two destroys that a search for "a" finds, two creates it does not find
PlanDestroyCreate ==
    << Resource(<<"a", ".", "q">>, <<"a">>, <<"q">>, ActionDestroy, 3),
       Resource(<<"a", ".", "a">>, <<"a">>, <<"a">>, ActionDestroy, 1),
       Resource(<<"q", ".", "q">>, <<"q">>, <<"q">>, ActionCreate, 2),
       Resource(<<"Q", ".", "q">>, <<"Q">>, <<"q">>, ActionCreate, 1) >>

\* out of address order and out of action order, with a duplicated address
PlanMixed ==
    << Resource(<<"q", ".", "a">>, <<"q">>, <<"a">>, ActionUpdate, 2),
       Resource(<<"a", ".", "q">>, <<"a">>, <<"q">>, ActionDestroy, 3),
       Resource(<<"a", ".", "q">>, <<"a">>, <<"q">>, ActionCreate, 1) >>

Plans == {PlanDestroyCreate, PlanMixed, << >>}

----------------------------------------------------------------------------
(* Package-level tables of model.go *)

SortDefault == "default"
SortByAction == "action"
SortByAddress == "address"
SortByType == "type"

sortOptions == <<SortDefault, SortByAction, SortByAddress, SortByType>>

actionOrder(a) ==
    CASE a = ActionCreate -> 0
      [] a = ActionRead -> 1
      [] a = ActionUpdate -> 2
      [] a = ActionReplace -> 3
      [] a = ActionDeleteCreate -> 4
      [] a = ActionCreateDelete -> 5
      [] a = ActionDestroy -> 6
      [] a = ActionNoOp -> 7
      [] OTHER -> 99

filterableActions ==
    <<ActionCreate, ActionDestroy, ActionUpdate, ActionReplace, ActionRead,
      ActionDeleteCreate, ActionCreateDelete>>

----------------------------------------------------------------------------
(* map[parser.Action]bool: nil, or a finite map *)

NilMap == [isNil |-> TRUE, kv |-> << >>]

EmptyMap == [isNil |-> FALSE, kv |-> << >>]

\* len(mp)
MapLen(mp) == IF mp.isNil THEN 0 ELSE Cardinality(DOMAIN mp.kv)

\* mp[a]: the zero value false for a missing key and for a nil map
MapGet(mp, a) == (~mp.isNil) /\ a \in DOMAIN mp.kv /\ mp.kv[a]

\* mp[a] = v on a non-nil map
MapSet(mp, a, v) ==
    [isNil |-> FALSE,
     kv |-> [x \in (DOMAIN mp.kv) \cup {a} |-> IF x = a THEN v ELSE mp.kv[x]]]

----------------------------------------------------------------------------
(* The bubbles viewport and text input, as far as model.go uses them *)

\* the zero value of viewport.Model, held until the first WindowSizeMsg
ZeroViewport == [Height |-> 0, YOffset |-> 0, lines |-> 0, MouseWheelEnabled |-> FALSE]

\* viewport.New(width, height)
NewViewport(height) ==
    [Height |-> height, YOffset |-> 0, lines |-> 0, MouseWheelEnabled |-> TRUE]

maxYOffset(vp) == Max(0, vp.lines - vp.Height)

\* viewport.SetYOffset clamps into [0, maxYOffset]
SetYOffset(vp, n) == [vp EXCEPT !.YOffset = Max(0, Min(n, maxYOffset(vp)))]

GotoTop(vp) == SetYOffset(vp, 0)

\* viewport.SetContent with a text of n lines
SetContent(vp, n) ==
    LET v == [vp EXCEPT !.lines = n]
    IN  IF v.YOffset > n - 1 THEN SetYOffset(v, maxYOffset(v)) ELSE v

\* viewport.Update on a mouse wheel event: three lines up or down
MouseWheel(vp, dir) ==
    IF ~vp.MouseWheelEnabled \/ vp.lines = 0 THEN vp
    ELSE IF dir = "up"
         THEN (IF vp.YOffset <= 0 THEN vp ELSE SetYOffset(vp, vp.YOffset - 3))
         ELSE (IF vp.YOffset >= maxYOffset(vp) THEN vp ELSE SetYOffset(vp, vp.YOffset + 3))

\* keys that are one printable character: the text input inserts them
IsRune(key) ==
    key \in {"q", "k", "j", " ", "e", "c", "f", "s", "/", "n", "N", "h", "d", "u",
             "g", "G", "l", "a", "y", "x"}

\* textinput.Update with the text cursor at the end of the value:
\* a character is appended, backspace deletes the last one, ctrl+u deletes
\* the line, every other key leaves the value alone
textinputUpdate(value, key) ==
    IF IsRune(key) THEN Append(value, key)
    ELSE IF key = "backspace" THEN (IF value = <<>> THEN value ELSE Front(value))
    ELSE IF key = "ctrl+u" THEN <<>>
    ELSE value

----------------------------------------------------------------------------
(* The displayed list: filter, then sort, then search *)

filteredResources(md, pl) ==
    IF MapLen(md.statusFilters) = 0
    THEN Iota(Len(pl))
    ELSE SelectSeq(Iota(Len(pl)), LAMBDA i : MapGet(md.statusFilters, At(pl, i).Action))

\* the less function handed to sort.Slice, on two resources
\* faulty variant: ties of action and of type are not broken by the address
sortLessNoTieBreak(order, ri, rj) ==
    CASE order = SortByAction -> actionOrder(ri.Action) < actionOrder(rj.Action)
      [] order = SortByType -> StrLess(ri.Type, rj.Type)
      [] order = SortByAddress -> StrLess(ri.Address, rj.Address)
      [] OTHER -> FALSE

\* (the three orders end in the same comparison of the addresses)
sortLess(order, ri, rj) ==
    IF order = SortByAction /\ ri.Action # rj.Action
          /\ actionOrder(ri.Action) # actionOrder(rj.Action)
    THEN actionOrder(ri.Action) < actionOrder(rj.Action)
    ELSE IF order = SortByType /\ ri.Type # rj.Type
    THEN StrLess(ri.Type, rj.Type)
    ELSE IF order \in {SortByAction, SortByAddress, SortByType}
    THEN StrLess(ri.Address, rj.Address)
    ELSE FALSE

\* sort.Slice on fewer than 12 elements is an insertion sort: each element
\* moves left while it is less than its left neighbour
RECURSIVE insertLeft(_, _, _, _)
insertLeft(s, x, order, pl) ==
    IF s = <<>> THEN <<x>>
    ELSE IF sortLess(order, At(pl, x), At(pl, Last(s)))
         THEN Append(insertLeft(Front(s), x, order, pl), Last(s))
         ELSE Append(s, x)

RECURSIVE sortSlice(_, _, _)
sortSlice(s, order, pl) ==
    IF s = <<>> THEN <<>>
    ELSE insertLeft(sortSlice(Front(s), order, pl), Last(s), order, pl)

\* sortedResources on the filtered list: kept as it is under SortDefault
sortFiltered(filtered, order, pl) ==
    IF order = SortDefault THEN filtered
    ELSE sortSlice(filtered, order, pl)

sortedResources(md, pl) == sortFiltered(filteredResources(md, pl), md.sortOrder, pl)

\* the matches that are positions of the sorted list
validMatches(matches, n) == SelectSeq(matches, LAMBDA d : d >= 0 /\ d < n)

\* displayedResourceIndices on the sorted list
displayedOf(md, sorted) ==
    IF md.searchQuery = <<>> THEN sorted
    ELSE IF Len(md.searchMatches) = 0 THEN <<>>
    ELSE [i \in 1..Len(validMatches(md.searchMatches, Len(sorted))) |->
             At(sorted, validMatches(md.searchMatches, Len(sorted))[i])]

displayedResourceIndices(md, pl) == displayedOf(md, sortedResources(md, pl))

\* the text of a resource that performSearch matches the terms against
searchable(r) == ToLower(r.Address \o <<" ">> \o r.Type \o <<" ">> \o r.Name)

\* performSearch: the positions of the sorted list whose resource matches
\* every term
matchesOf(terms, filtered, pl) ==
    SelectSeq(Iota(Len(filtered)),
              LAMBDA d : \A t \in Range(terms) :
                            fuzzyMatch(searchable(At(pl, At(filtered, d))), t))

\* performSearch once the terms and the matches are computed
searchResult(md, terms, matches) ==
    IF md.searchQuery = <<>> \/ Len(terms) = 0 \/ Len(matches) = 0
    THEN [md EXCEPT !.searchMatches = <<>>, !.currentMatch = 0]
    ELSE [md EXCEPT !.searchMatches = matches, !.cursor = 0, !.currentMatch = 0]

\* performSearch once the terms are split
searchTerms(md, terms, pl) ==
    searchResult(md, terms, matchesOf(terms, sortedResources(md, pl), pl))

performSearch(md, pl) == searchTerms(md, Fields(ToLower(md.searchQuery)), pl)

----------------------------------------------------------------------------
(* Rendering and scrolling *)

\* rows renderResources writes for one resource: the header row and, when
\* the resource is expanded and has a body, the body rows and a blank row
blockRows(r, isExpanded) ==
    IF isExpanded /\ r.RawLines > 1 THEN 1 + (r.RawLines - 1) + 1 ELSE 1

RECURSIVE lineStarts(_, _, _, _)
lineStarts(displayed, md, pl, lineCount) ==
    IF displayed = <<>> THEN <<>>
    ELSE <<lineCount>> \o
         lineStarts(Tail(displayed), md, pl,
                    lineCount + blockRows(At(pl, Head(displayed)),
                                          md.expanded[Head(displayed)]))

RECURSIVE rowsOf(_, _, _)
rowsOf(displayed, md, pl) ==
    IF displayed = <<>> THEN 0
    ELSE blockRows(At(pl, Head(displayed)), md.expanded[Head(displayed)])
         + rowsOf(Tail(displayed), md, pl)

\* renderResources once the rows are counted: the model with
\* resourceLineStarts and contentLineCount rewritten, and the number of
\* lines of the rendered text
renderRows(md, displayed, rows, pl) ==
    IF Len(displayed) = 0
    THEN [m |-> [md EXCEPT !.resourceLineStarts = <<>>], nlines |-> 2]
    ELSE [m |-> [md EXCEPT !.resourceLineStarts = lineStarts(displayed, md, pl, 0),
                           !.contentLineCount = rows],
          nlines |-> rows + 3 + Max(0, md.viewport.Height)]

\* renderResources on the displayed list
renderDisplayed(md, displayed, pl) ==
    renderRows(md, displayed, rowsOf(displayed, md, pl), pl)

renderResources(md, pl) == renderDisplayed(md, displayedResourceIndices(md, pl), pl)

\* m.viewport.SetContent(m.renderResources())
setRendered(r) == [r.m EXCEPT !.viewport = SetContent(r.m.viewport, r.nlines)]

updateViewportContent(md, pl) ==
    IF ~md.ready THEN md
    ELSE setRendered(renderResources(md, pl))

\* ensureCursorVisible once the cursor's line is known
showLine(md, lineNum) ==
    IF lineNum < md.viewport.YOffset
    THEN [md EXCEPT !.viewport = SetYOffset(md.viewport, lineNum)]
    ELSE IF lineNum > md.viewport.YOffset + md.viewport.Height - 1
    THEN [md EXCEPT !.viewport =
              SetYOffset(md.viewport, Max(0, lineNum - md.viewport.Height + 1))]
    ELSE md

ensureCursorVisible(md) ==
    IF ~md.ready THEN md
    ELSE IF md.cursor < 0 \/ md.cursor >= Len(md.resourceLineStarts) THEN md
    ELSE showLine(md, At(md.resourceLineStarts, md.cursor))

\* scrollForExpanded: sortedResources()[m.cursor], or -1 past its end
resourceAtCursor(filtered, cursor) ==
    IF cursor < Len(filtered) THEN At(filtered, cursor) ELSE -1

\* scrollForExpanded once the resource under the cursor is looked up
scrollForResource(md, resourceIdx) ==
    LET endLine == IF md.cursor + 1 < Len(md.resourceLineStarts)
                   THEN At(md.resourceLineStarts, md.cursor + 1)
                   ELSE md.contentLineCount
        bottomLine == md.viewport.YOffset + md.viewport.Height - 1
    IN  IF resourceIdx >= 0 /\ md.expanded[resourceIdx] /\ endLine > bottomLine
        THEN [md EXCEPT !.viewport =
                  SetYOffset(md.viewport, At(md.resourceLineStarts, md.cursor))]
        ELSE ensureCursorVisible(md)

scrollForExpanded(md, pl) ==
    IF ~md.ready \/ md.cursor < 0 \/ md.cursor >= Len(md.resourceLineStarts) THEN md
    ELSE scrollForResource(md, resourceAtCursor(sortedResources(md, pl), md.cursor))

----------------------------------------------------------------------------
(* Methods of Model *)

\* clampCursorAndRefreshSearch: the cursor clamped into a list of n entries
clampCursor(md, n) ==
    IF md.cursor >= n
    THEN [md EXCEPT !.cursor = IF n > 0 THEN n - 1 ELSE 0]
    ELSE md

\* clampCursorAndRefreshSearch: the search re-run when a query is active
refreshSearch(md, pl) ==
    IF md.searchQuery # <<>> THEN performSearch(md, pl) ELSE md

clampCursorAndRefreshSearch(md, pl) ==
    refreshSearch(clampCursor(md, Len(displayedResourceIndices(md, pl))), pl)

\* faulty variant: expanded[idx] = v for every resource of the plan
setExpandedInPlan(md, pl, v) ==
    [md EXCEPT !.expanded = [i \in DOMAIN md.expanded |-> v]]

\* expanded[idx] = v for every displayed idx
setExpanded(md, pl, v) ==
    LET shown == Range(displayedResourceIndices(md, pl))
    IN  [md EXCEPT !.expanded = [i \in DOMAIN md.expanded |->
                                    IF i \in shown THEN v ELSE md.expanded[i]]]

expandAll(md, pl) == ensureCursorVisible(updateViewportContent(setExpanded(md, pl, TRUE), pl))

collapseAll(md, pl) == ensureCursorVisible(updateViewportContent(setExpanded(md, pl, FALSE), pl))

\* nextMatch and prevMatch: the cursor moved to match cm
gotoMatch(md, cm, pl) ==
    ensureCursorVisible(updateViewportContent(
        [md EXCEPT !.currentMatch = cm, !.cursor = cm], pl))

\* nextMatch on a displayed list of n entries
nextMatchOf(md, n, pl) ==
    IF md.searchQuery = <<>> \/ Len(md.searchMatches) = 0 THEN md
    ELSE IF n > 0 THEN gotoMatch(md, (md.currentMatch + 1) % n, pl)
    ELSE md

nextMatch(md, pl) == nextMatchOf(md, Len(displayedResourceIndices(md, pl)), pl)

\* prevMatch on a displayed list of n entries
prevMatchOf(md, n, pl) ==
    IF md.searchQuery = <<>> \/ Len(md.searchMatches) = 0 THEN md
    ELSE IF n > 0
    THEN gotoMatch(md, IF md.currentMatch - 1 < 0 THEN n - 1 ELSE md.currentMatch - 1, pl)
    ELSE md

prevMatch(md, pl) == prevMatchOf(md, Len(displayedResourceIndices(md, pl)), pl)

clearSearch(md, pl) ==
    updateViewportContent(
        [md EXCEPT !.searchQuery = <<>>, !.searchMatches = <<>>, !.searchInput = <<>>], pl)

scrollHalfPageDown(md) ==
    [md EXCEPT !.viewport = SetYOffset(md.viewport, md.viewport.YOffset + md.viewport.Height \div 2)]

scrollHalfPageUp(md) ==
    [md EXCEPT !.viewport =
        SetYOffset(md.viewport, Max(0, md.viewport.YOffset - md.viewport.Height \div 2))]

\* handleGKey on the second g: m.viewport.GotoTop(), m.pendingG = false
gotoTopOf(md) == [md EXCEPT !.viewport = GotoTop(md.viewport), !.pendingG = FALSE]

\* faulty variant: a single g jumps to the top
handleGKeySingle(md, pl) == gotoTopOf(updateViewportContent([md EXCEPT !.cursor = 0], pl))

handleGKey(md, pl) ==
    IF md.pendingG
    THEN gotoTopOf(updateViewportContent([md EXCEPT !.cursor = 0], pl))
    ELSE [md EXCEPT !.pendingG = TRUE]

\* gotoBottom: the cursor on the last of n displayed entries
cursorToLast(md, n) == IF n > 0 THEN [md EXCEPT !.cursor = n - 1] ELSE md

\* gotoBottom: m.pendingG = false
clearPendingG(md) == [md EXCEPT !.pendingG = FALSE]

gotoBottom(md, pl) ==
    clearPendingG(ensureCursorVisible(updateViewportContent(
        cursorToLast(md, Len(displayedResourceIndices(md, pl))), pl)))

----------------------------------------------------------------------------
(* Normal-mode key handlers: each returns the new model and the command *)

Ret(md, cmd) == [m |-> md, cmd |-> cmd]

\* displayed[m.cursor], or -1 when the cursor is outside the displayed list
entryAt(displayed, cursor) ==
    IF cursor >= 0 /\ cursor < Len(displayed) THEN At(displayed, cursor) ELSE -1

\* the resource under the cursor, or -1
cursorResource(md, pl) == entryAt(displayedResourceIndices(md, pl), md.cursor)

\* m.expanded[idx] = !m.expanded[idx] when a resource is under the cursor
toggleExpanded(md, idx) ==
    IF idx >= 0 THEN [md EXCEPT !.expanded[idx] = ~md.expanded[idx]] ELSE md

\* m.expanded[idx] = v when a resource is under the cursor
setExpandedAt(md, idx, v) ==
    IF idx >= 0 THEN [md EXCEPT !.expanded[idx] = v] ELSE md

\* faulty variant: quitting with the confirmation armed applies the plan
handleKeyQuitConfirms(md, pl) == Ret([md EXCEPT !.shouldApply = md.confirmApply], "quit")

handleKeyQuit(md, pl) == Ret(md, "quit")

handleKeyUp(md, pl) ==
    IF md.cursor > 0
    THEN Ret(ensureCursorVisible(updateViewportContent([md EXCEPT !.cursor = md.cursor - 1], pl)),
             "none")
    ELSE Ret([md EXCEPT !.viewport = SetYOffset(md.viewport, md.viewport.YOffset - 1)], "none")

handleKeyDown(md, pl) ==
    IF md.cursor < Len(displayedResourceIndices(md, pl)) - 1
    THEN Ret(ensureCursorVisible(updateViewportContent([md EXCEPT !.cursor = md.cursor + 1], pl)),
             "none")
    ELSE Ret([md EXCEPT !.viewport = SetYOffset(md.viewport, md.viewport.YOffset + 1)], "none")

handleKeyEnter(md, pl) ==
    Ret(scrollForExpanded(
            updateViewportContent(toggleExpanded(md, cursorResource(md, pl)), pl), pl),
        "none")

handleKeyExpandAll(md, pl) == Ret(expandAll(md, pl), "none")

handleKeyCollapseAll(md, pl) == Ret(collapseAll(md, pl), "none")

\* faulty variant: the picker opens on the map as it is, nil included
handleKeyFilterKeepsNil(md, pl) ==
    Ret([md EXCEPT !.filtering = TRUE, !.filterCursor = 0], "none")

handleKeyFilter(md, pl) ==
    Ret([md EXCEPT !.filtering = TRUE, !.filterCursor = 0,
                   !.statusFilters = IF md.statusFilters.isNil THEN EmptyMap
                                     ELSE md.statusFilters],
        "none")

handleKeySort(md, pl) ==
    LET hits == {i \in 0..(Len(sortOptions) - 1) : At(sortOptions, i) = md.sortOrder}
    IN  Ret([md EXCEPT !.sorting = TRUE,
                       !.sortCursor = IF hits = {} THEN 0
                                      ELSE CHOOSE i \in hits : \A j \in hits : i <= j],
            "none")

handleKeySearch(md, pl) == Ret([md EXCEPT !.searching = TRUE], "blink")

handleKeyNextMatch(md, pl) == Ret(nextMatch(md, pl), "none")

handleKeyPrevMatch(md, pl) == Ret(prevMatch(md, pl), "none")

\* faulty variant: Escape drops the filter without re-running the search
handleKeyEscNoRefresh(md, pl) ==
    IF MapLen(md.statusFilters) > 0
    THEN Ret(updateViewportContent([md EXCEPT !.statusFilters = NilMap], pl), "none")
    ELSE Ret(clearSearch(md, pl), "none")

handleKeyEsc(md, pl) ==
    IF MapLen(md.statusFilters) > 0
    THEN Ret(updateViewportContent(
                 clampCursorAndRefreshSearch([md EXCEPT !.statusFilters = NilMap], pl), pl),
             "none")
    ELSE Ret(clearSearch(md, pl), "none")

handleKeyCollapseCurrent(md, pl) ==
    Ret(ensureCursorVisible(
            updateViewportContent(setExpandedAt(md, cursorResource(md, pl), FALSE), pl)),
        "none")

handleKeyHalfPageDown(md, pl) == Ret(scrollHalfPageDown(md), "none")

handleKeyHalfPageUp(md, pl) == Ret(scrollHalfPageUp(md), "none")

handleKeyG(md, pl) == Ret(handleGKey(md, pl), "none")

handleKeyGG(md, pl) == Ret(gotoBottom(md, pl), "none")

handleKeyPgUp(md, pl) ==
    LET top == GotoTop(md.viewport)
    IN  Ret([md EXCEPT !.viewport = SetYOffset(top, top.YOffset - top.Height)], "none")

handleKeyPgDown(md, pl) ==
    Ret([md EXCEPT !.viewport = SetYOffset(md.viewport, md.viewport.YOffset + md.viewport.Height)],
        "none")

handleKeyExpandCurrent(md, pl) ==
    Ret(scrollForExpanded(
            updateViewportContent(setExpandedAt(md, cursorResource(md, pl), TRUE), pl), pl),
        "none")

handleKeyApply(md, pl) ==
    IF md.applyMode
    THEN IF md.confirmApply
         THEN Ret([md EXCEPT !.shouldApply = TRUE], "quit")
         ELSE Ret(updateViewportContent([md EXCEPT !.confirmApply = TRUE], pl), "none")
    ELSE Ret(md, "none")

\* faulty variant: 'y' applies without looking at the confirmation flag
handleKeyConfirmApplyUnarmed(md, pl) ==
    IF md.applyMode
    THEN Ret([md EXCEPT !.shouldApply = TRUE], "quit")
    ELSE Ret(md, "none")

handleKeyConfirmApply(md, pl) ==
    IF md.applyMode /\ md.confirmApply
    THEN Ret([md EXCEPT !.shouldApply = TRUE], "quit")
    ELSE Ret(md, "none")

\* the keys of the normalKeyHandlers table
NormalKeys ==
    {"q", "ctrl+c", "up", "k", "down", "j", "enter", " ", "e", "c", "f", "s", "/",
     "n", "N", "esc", "backspace", "h", "left", "d", "ctrl+d", "u", "ctrl+u", "g", "G",
     "pgup", "pgdown", "l", "right", "a", "y"}

\* normalKeyHandlers[key](m), for key in NormalKeys
normalKeyHandlers(key, md, pl) ==
    CASE key \in {"q", "ctrl+c"} -> handleKeyQuit(md, pl)
      [] key \in {"up", "k"} -> handleKeyUp(md, pl)
      [] key \in {"down", "j"} -> handleKeyDown(md, pl)
      [] key \in {"enter", " "} -> handleKeyEnter(md, pl)
      [] key = "e" -> handleKeyExpandAll(md, pl)
      [] key = "c" -> handleKeyCollapseAll(md, pl)
      [] key = "f" -> handleKeyFilter(md, pl)
      [] key = "s" -> handleKeySort(md, pl)
      [] key = "/" -> handleKeySearch(md, pl)
      [] key = "n" -> handleKeyNextMatch(md, pl)
      [] key = "N" -> handleKeyPrevMatch(md, pl)
      [] key = "esc" -> handleKeyEsc(md, pl)
      [] key \in {"backspace", "h", "left"} -> handleKeyCollapseCurrent(md, pl)
      [] key \in {"d", "ctrl+d"} -> handleKeyHalfPageDown(md, pl)
      [] key \in {"u", "ctrl+u"} -> handleKeyHalfPageUp(md, pl)
      [] key = "g" -> handleKeyG(md, pl)
      [] key = "G" -> handleKeyGG(md, pl)
      [] key = "pgup" -> handleKeyPgUp(md, pl)
      [] key = "pgdown" -> handleKeyPgDown(md, pl)
      [] key \in {"l", "right"} -> handleKeyExpandCurrent(md, pl)
      [] key = "a" -> handleKeyApply(md, pl)
      [] key = "y" -> handleKeyConfirmApply(md, pl)

\* handleNormalKey: pendingG is reset by every key but g and G
resetPendingG(md, key) ==
    IF key # "g" /\ key # "G" THEN [md EXCEPT !.pendingG = FALSE] ELSE md

\* handleNormalKey: the confirmation prompt is dropped
dropConfirm(md, cmd, pl) ==
    Ret(updateViewportContent([md EXCEPT !.confirmApply = FALSE], pl), cmd)

\* handleNormalKey after the handler has returned r: a flag that was armed
\* before the key is disarmed unless the key is 'a' or 'y'
afterHandler(wasArmed, key, r, pl) ==
    IF wasArmed /\ key # "a" /\ key # "y" THEN dropConfirm(r.m, r.cmd, pl) ELSE r

\* handleNormalKey for a key without a handler
unboundKey(md, pl) ==
    IF md.confirmApply THEN dropConfirm(md, "none", pl) ELSE Ret(md, "none")

\* handleNormalKey once pendingG is reset
dispatchNormalKey(md, key, pl) ==
    IF key \in NormalKeys
    THEN afterHandler(md.confirmApply, key, normalKeyHandlers(key, md, pl), pl)
    ELSE unboundKey(md, pl)

\* faulty variant: the flag is not disarmed after a key that has a handler
handleNormalKeyKeepsFlag(md, key, pl) ==
    IF key \in NormalKeys
    THEN normalKeyHandlers(key, resetPendingG(md, key), pl)
    ELSE unboundKey(resetPendingG(md, key), pl)

\* faulty variant: the flag is not disarmed by a key that has no handler
handleNormalKeyUnboundKeeps(md, key, pl) ==
    IF key \in NormalKeys
    THEN dispatchNormalKey(resetPendingG(md, key), key, pl)
    ELSE Ret(resetPendingG(md, key), "none")

handleNormalKey(md, key, pl) == dispatchNormalKey(resetPendingG(md, key), key, pl)

----------------------------------------------------------------------------
(* Picker and search-input key handlers *)

\* handleFilterKey, case "esc"
filterKeyEsc(md, pl) ==
    Ret(updateViewportContent(
            clampCursorAndRefreshSearch(
                [md EXCEPT !.statusFilters = NilMap, !.filtering = FALSE], pl), pl),
        "none")

\* faulty variant: applying the filter forgets the expansion of the hidden resources
filterKeyEnterPrunes(md, pl) ==
    LET m1 == [md EXCEPT !.filtering = FALSE]
        shown == Range(sortedResources(m1, pl))
    IN  Ret(updateViewportContent(
                clampCursorAndRefreshSearch(
                    [m1 EXCEPT !.expanded = [i \in DOMAIN md.expanded |->
                                                i \in shown /\ md.expanded[i]]], pl), pl),
            "none")

\* handleFilterKey, case "enter"
filterKeyEnter(md, pl) ==
    Ret(updateViewportContent(
            clampCursorAndRefreshSearch([md EXCEPT !.filtering = FALSE], pl), pl),
        "none")

\* handleFilterKey, case " "
filterKeyToggle(md, pl) ==
    IF md.filterCursor < 0 \/ md.filterCursor >= Len(filterableActions)
       \/ md.statusFilters.isNil
    THEN Ret(md, "panic")
    ELSE LET action == At(filterableActions, md.filterCursor)
         IN  Ret([md EXCEPT !.statusFilters =
                      MapSet(md.statusFilters, action, ~MapGet(md.statusFilters, action))],
                 "none")

\* handleFilterKey, case "a"
filterKeySelectAll(md, pl) ==
    IF md.statusFilters.isNil THEN Ret(md, "panic")
    ELSE Ret([md EXCEPT !.statusFilters =
                  [isNil |-> FALSE,
                   kv |-> [x \in (DOMAIN md.statusFilters.kv) \cup Range(filterableActions)
                             |-> IF x \in Range(filterableActions) THEN TRUE
                                 ELSE md.statusFilters.kv[x]]]],
             "none")

handleFilterKey(md, key, pl) ==
    CASE key = "esc" -> filterKeyEsc(md, pl)
      [] key = "enter" -> filterKeyEnter(md, pl)
      [] key \in {"up", "k"} ->
            Ret(IF md.filterCursor > 0 THEN [md EXCEPT !.filterCursor = md.filterCursor - 1]
                ELSE md, "none")
      [] key \in {"down", "j"} ->
            Ret(IF md.filterCursor < Len(filterableActions) - 1
                THEN [md EXCEPT !.filterCursor = md.filterCursor + 1]
                ELSE md, "none")
      [] key = " " -> filterKeyToggle(md, pl)
      [] key = "a" -> filterKeySelectAll(md, pl)
      [] key = "c" -> Ret([md EXCEPT !.statusFilters = EmptyMap], "none")
      [] OTHER -> Ret(md, "none")

\* faulty variant: Escape in the sort picker applies the highlighted order
sortKeyEscApplies(md, pl) ==
    Ret(updateViewportContent(
            [md EXCEPT !.sorting = FALSE,
                       !.sortOrder = At(sortOptions, md.sortCursor)], pl),
        "none")

\* handleSortKey, case "esc"
sortKeyEsc(md, pl) == Ret(updateViewportContent([md EXCEPT !.sorting = FALSE], pl), "none")

\* handleSortKey, case "enter", " "
sortKeyApply(md, pl) ==
    IF md.sortCursor < 0 \/ md.sortCursor >= Len(sortOptions)
    THEN Ret(md, "panic")
    ELSE Ret(updateViewportContent(
                 clampCursorAndRefreshSearch(
                     [md EXCEPT !.sortOrder = At(sortOptions, md.sortCursor),
                                !.sorting = FALSE], pl), pl),
             "none")

handleSortKey(md, key, pl) ==
    CASE key = "esc" -> sortKeyEsc(md, pl)
      [] key \in {"enter", " "} -> sortKeyApply(md, pl)
      [] key \in {"up", "k"} ->
            Ret(IF md.sortCursor > 0 THEN [md EXCEPT !.sortCursor = md.sortCursor - 1]
                ELSE md, "none")
      [] key \in {"down", "j"} ->
            Ret(IF md.sortCursor < Len(sortOptions) - 1
                THEN [md EXCEPT !.sortCursor = md.sortCursor + 1]
                ELSE md, "none")
      [] OTHER -> Ret(md, "none")

handleSearchArrowUp(md, pl) ==
    IF md.cursor > 0
    THEN ensureCursorVisible(updateViewportContent([md EXCEPT !.cursor = md.cursor - 1], pl))
    ELSE [md EXCEPT !.viewport = SetYOffset(md.viewport, md.viewport.YOffset - 1)]

handleSearchArrowDown(md, pl) ==
    IF md.cursor < Len(displayedResourceIndices(md, pl)) - 1
    THEN ensureCursorVisible(updateViewportContent([md EXCEPT !.cursor = md.cursor + 1], pl))
    ELSE [md EXCEPT !.viewport = SetYOffset(md.viewport, md.viewport.YOffset + 1)]

\* the `if m.searching` branch of Model.Update
handleSearchKey(md, key, pl) ==
    CASE key = "enter" ->
            Ret(updateViewportContent(
                    clampCursorAndRefreshSearch(
                        performSearch([md EXCEPT !.searching = FALSE,
                                                 !.searchQuery = md.searchInput], pl), pl), pl),
                "none")
      [] key = "esc" ->
            Ret(updateViewportContent(
                    clampCursorAndRefreshSearch(
                        [md EXCEPT !.searching = FALSE, !.searchInput = <<>>,
                                   !.searchQuery = <<>>, !.searchMatches = <<>>], pl), pl),
                "none")
      [] key = "up" -> Ret(handleSearchArrowUp(md, pl), "none")
      [] key = "down" -> Ret(handleSearchArrowDown(md, pl), "none")
      [] OTHER ->
            LET v == textinputUpdate(md.searchInput, key)
            IN  Ret(updateViewportContent(
                        clampCursorAndRefreshSearch(
                            performSearch([md EXCEPT !.searchInput = v, !.searchQuery = v], pl),
                            pl), pl),
                    "none")

\* faulty variant: a key the open picker or the search input has handled falls
\* through to the Normal-mode handler
UpdateKeyFallsThrough(md, key, pl) ==
    LET r == IF md.filtering THEN handleFilterKey(md, key, pl)
             ELSE IF md.sorting THEN handleSortKey(md, key, pl)
             ELSE IF md.searching THEN handleSearchKey(md, key, pl)
             ELSE Ret(md, "none")
    IN  IF r.cmd = "panic" THEN r
        ELSE handleNormalKey(r.m, key, pl)

\* the tea.KeyMsg case of Model.Update
UpdateKey(md, key, pl) ==
    IF md.filtering THEN handleFilterKey(md, key, pl)
    ELSE IF md.sorting THEN handleSortKey(md, key, pl)
    ELSE IF md.searching THEN handleSearchKey(md, key, pl)
    ELSE handleNormalKey(md, key, pl)

\* faulty variant: the update notice is handled like an unbound key of
\* Normal mode and cancels a pending "g"
UpdateAvailableCancelsG(md, version) ==
    LET m1 == [md EXCEPT !.updateAvailable = version, !.pendingG = FALSE]
    IN  IF m1.ready /\ m1.height > 0
        THEN [m1 EXCEPT !.viewport.Height = m1.height - 4 - 4]
        ELSE m1

\* the UpdateAvailableMsg case of Model.Update
UpdateAvailable(md, version) ==
    LET m1 == [md EXCEPT !.updateAvailable = version]
    IN  IF m1.ready /\ m1.height > 0
        THEN [m1 EXCEPT !.viewport.Height = m1.height - 4 - 4]
        ELSE m1

\* the tea.WindowSizeMsg case of Model.Update
UpdateWindowSize(md, h, pl) ==
    LET footerHeight == IF md.updateAvailable # "" THEN 4 ELSE 3
    IN  updateViewportContent(
            IF ~md.ready
            THEN [md EXCEPT !.height = h, !.ready = TRUE,
                            !.viewport = NewViewport(h - 4 - footerHeight)]
            ELSE [md EXCEPT !.height = h, !.viewport.Height = h - 4 - footerHeight],
            pl)

\* the tea.MouseMsg case of Model.Update
UpdateMouse(md, dir) == [md EXCEPT !.viewport = MouseWheel(md.viewport, dir)]

----------------------------------------------------------------------------
(* The event loop *)

\* NewModel (applyMode false) and NewModelWithApply (applyMode true); the
\* terminal width, which only decides word wrapping, is left out
NewModel(pl, applyMode) ==
    [cursor |-> 0,
     expanded |-> [i \in 0..(Len(pl) - 1) |-> FALSE],
     viewport |-> ZeroViewport,
     ready |-> FALSE,
     height |-> 0,
     searching |-> FALSE,
     searchInput |-> <<>>,
     searchQuery |-> <<>>,
     searchMatches |-> <<>>,
     currentMatch |-> 0,
     pendingG |-> FALSE,
     resourceLineStarts |-> <<>>,
     contentLineCount |-> 0,
     applyMode |-> applyMode,
     shouldApply |-> FALSE,
     confirmApply |-> FALSE,
     statusFilters |-> NilMap,
     filtering |-> FALSE,
     filterCursor |-> 0,
     sortOrder |-> SortDefault,
     sorting |-> FALSE,
     sortCursor |-> 0,
     updateAvailable |-> ""]

\* Normal mode: no picker, no search input, no pending confirmation
Normal(md) == ~md.searching /\ ~md.filtering /\ ~md.sorting /\ ~md.confirmApply

\* keys the terminal sends: the bound keys and two unbound ones
Keys == NormalKeys \cup {"x", "tab"}

\* keys sent while the search input is open
SearchKeys ==
    {"enter", "esc", "up", "down", "backspace", "tab", "ctrl+c", "ctrl+u",
     "a", "q", "y", "g", " "}

\* terminal heights of the WindowSizeMsg
WinHeights == {10, 11}

\* the monitor of "a filter is applied during a search, then cleared":
\* idle -> picking (f, with a query and no filter) -> applied (enter, some
\* status toggled) -> cleared (esc), or applied -> repick (f) -> wiped (c)
\* -> cleared (enter).  It keeps searchMatches and the displayed list as
\* they were before the picker opened, and the list displayed under the
\* filter.
MonIdle == [phase |-> "idle", matches |-> <<>>, displayed |-> <<>>, during |-> <<>>]

MonStep(mn, md, key, nm, pl) ==
    LET start == Normal(md) /\ key = "f" /\ md.searchQuery # <<>>
                 /\ MapLen(md.statusFilters) = 0
        snap == [phase |-> "picking", matches |-> md.searchMatches,
                 displayed |-> displayedResourceIndices(md, pl), during |-> <<>>]
    IN  CASE mn.phase = "picking" /\ md.filtering ->
                IF key = "enter"
                THEN (IF MapLen(nm.statusFilters) > 0
                      THEN [mn EXCEPT !.phase = "applied",
                                      !.during = displayedResourceIndices(nm, pl)]
                      ELSE MonIdle)
                ELSE IF key = "esc" THEN MonIdle
                ELSE mn
          [] mn.phase = "applied" ->
                IF key = "esc" THEN [mn EXCEPT !.phase = "cleared"]
                ELSE IF key = "f" THEN [mn EXCEPT !.phase = "repick"]
                ELSE MonIdle
          [] mn.phase \in {"repick", "wiped"} /\ md.filtering ->
                IF key = "c" THEN [mn EXCEPT !.phase = "wiped"]
                ELSE IF key \in {" ", "a"} THEN [mn EXCEPT !.phase = "repick"]
                ELSE IF key = "enter"
                THEN (IF mn.phase = "wiped" THEN [mn EXCEPT !.phase = "cleared"]
                      ELSE [mn EXCEPT !.phase = "applied"])
                ELSE IF key = "esc" THEN MonIdle
                ELSE mn
          [] OTHER -> IF start THEN snap ELSE MonIdle

\* the history keeps of a key only whether it is an apply key, Escape or g
KeyClass(key) == IF key \in {"a", "y", "esc", "g"} THEN key ELSE "other"

\* the mode a key is dispatched in, in the order Model.Update tests the flags
ModeOf(md) ==
    IF md.filtering THEN "filter"
    ELSE IF md.sorting THEN "sort"
    ELSE IF md.searching THEN "search"
    ELSE IF md.confirmApply THEN "confirm"
    ELSE "normal"

\* the viewer runs; no function is called on its own
NoCall == [fn |-> "none", done |-> TRUE]

\* the key event recorded in h was 'a' in Normal mode with the flag unarmed
Arming(h) == h.kind # "init" /\ h.key = "a" /\ h.mode = "normal"

Init ==
    /\ plan \in Plans
    /\ \E applyMode \in BOOLEAN : m = NewModel(plan, applyMode)
    /\ status = "running"
    /\ updatePending = TRUE
    /\ nEvents = 0
    /\ last = [kind |-> "init", key |-> "none", mode |-> "normal"]
    /\ prevArm = FALSE
    /\ mon = MonIdle
    /\ call = NoCall

\* the event loop takes the next message while the program runs
Running == status = "running" /\ nEvents < MaxEvents

\* what the program does with the model and the command Update returns
\* for a key
KeyResult(key, r) ==
    /\ m' = r.m
    /\ status' = IF r.cmd \in {"quit", "panic"} THEN r.cmd ELSE "running"
    /\ last' = [kind |-> "key", key |-> KeyClass(key), mode |-> ModeOf(m)]
    /\ prevArm' = Arming(last)
    /\ mon' = MonStep(mon, m, key, r.m, plan)
    /\ UNCHANGED <<plan, updatePending, call>>

\* Model.Update on a tea.KeyMsg
KeyStep(key) == KeyResult(key, UpdateKey(m, key, plan))

FilterKeyMsg ==
    /\ Running /\ m.filtering
    /\ nEvents' = nEvents + 1
    /\ \E key \in Keys :
        /\ key \in {"down", "j"} => m.filterCursor < MaxFilterRow
        /\ KeyStep(key)

SortKeyMsg ==
    /\ Running /\ ~m.filtering /\ m.sorting
    /\ nEvents' = nEvents + 1
    /\ \E key \in Keys : KeyStep(key)

SearchKeyMsg ==
    /\ Running /\ ~m.filtering /\ ~m.sorting /\ m.searching
    /\ nEvents' = nEvents + 1
    /\ \E key \in SearchKeys :
        /\ IsRune(key) => Len(m.searchInput) < MaxQueryLen
        /\ KeyStep(key)

NormalKeyMsg ==
    /\ Running /\ ~m.filtering /\ ~m.sorting /\ ~m.searching
    /\ nEvents' = nEvents + 1
    /\ \E key \in Keys : KeyStep(key)

OtherStep(kind, nm) ==
    /\ m' = nm
    /\ last' = [last EXCEPT !.kind = kind]
    /\ nEvents' = nEvents + 1
    /\ UNCHANGED <<plan, status, prevArm, mon, call>>

WindowSizeMsg ==
    /\ Running
    /\ \E h \in WinHeights : OtherStep("resize", UpdateWindowSize(m, h, plan))
    /\ UNCHANGED updatePending

MouseMsg ==
    /\ Running
    /\ \E dir \in {"up", "down"} : OtherStep("mouse", UpdateMouse(m, dir))
    /\ UNCHANGED updatePending

UpdateAvailableMsg ==
    /\ Running /\ updatePending
    /\ updatePending' = FALSE
    /\ OtherStep("update", UpdateAvailable(m, "v"))

Next ==
    \/ FilterKeyMsg
    \/ SortKeyMsg
    \/ SearchKeyMsg
    \/ NormalKeyMsg
    \/ WindowSizeMsg
    \/ MouseMsg
    \/ UpdateAvailableMsg

\* every message type, sessions of at most MaxEvents messages
Spec == Init /\ [][Next]_vars

----------------------------------------------------------------------------
(* Keyboard sessions of any length on the filter and search keys, in a     *)
(* view-only viewer whose terminal has reported its size once and is not   *)
(* resized                                                                 *)

FsNormalKeys == {"/", "f", "j", "k", "esc"}

FsSearchKeys == {"a", "q", "backspace", "enter", "esc"}

FsFilterKeys == {" ", "j", "k", "a", "c", "enter", "esc"}

FsInit ==
    /\ plan \in Plans
    /\ m = UpdateWindowSize(NewModel(plan, FALSE), 10, plan)
    /\ status = "running"
    /\ updatePending = FALSE
    /\ nEvents = 0
    /\ last = [kind |-> "resize", key |-> "none", mode |-> "normal"]
    /\ prevArm = FALSE
    /\ mon = MonIdle
    /\ call = NoCall

FsFilterKey ==
    /\ status = "running" /\ m.filtering
    /\ UNCHANGED nEvents
    /\ \E key \in FsFilterKeys :
        /\ key \in {"down", "j"} => m.filterCursor < MaxFilterRow
        /\ KeyStep(key)

FsSearchKey ==
    /\ status = "running" /\ ~m.filtering /\ m.searching
    /\ UNCHANGED nEvents
    /\ \E key \in FsSearchKeys :
        /\ IsRune(key) => Len(m.searchInput) < MaxQueryLen
        /\ KeyStep(key)

FsNormalKey ==
    /\ status = "running" /\ ~m.filtering /\ ~m.searching
    /\ UNCHANGED nEvents
    /\ \E key \in FsNormalKeys : KeyStep(key)

FsNext ==
    \/ FsFilterKey
    \/ FsSearchKey
    \/ FsNormalKey

SpecFilterSearch == FsInit /\ [][FsNext]_vars

----------------------------------------------------------------------------
(* Functions of the program called on their own, on every input of a       *)
(* bounded set                                                             *)

\* longest plan handed to sortedResources
MaxSortPlanLen == 3

\* resources of every action, with ties of action and of type, as
\* parseResourceAddress splits their addresses
SortPalette ==
    { Resource(<<"q", ".", "a">>, <<"q">>, <<"a">>, ActionCreate, 1),
      Resource(<<"a", ".", "q">>, <<"a">>, <<"q">>, ActionRead, 1),
      Resource(<<"a", ".", "a">>, <<"a">>, <<"a">>, ActionUpdate, 1),
      Resource(<<"Q", ".", "q">>, <<"Q">>, <<"q">>, ActionReplace, 1),
      Resource(<<"q", ".", "q">>, <<"q">>, <<"q">>, ActionDeleteCreate, 1),
      Resource(<<"a", ".", "g">>, <<"a">>, <<"g">>, ActionCreateDelete, 1),
      Resource(<<"Q", ".", "a">>, <<"Q">>, <<"a">>, ActionDestroy, 1),
      Resource(<<"g", ".", "a">>, <<"g">>, <<"a">>, ActionNoOp, 1),
      Resource(<<"a", ".", "y">>, <<"a">>, <<"y">>, ActionCreate, 1) }

\* the plans of at most MaxSortPlanLen different resources of the palette
SortPlans ==
    UNION { { pl \in [1..n -> SortPalette] :
                \A i, j \in 1..n : pl[i] = pl[j] => i = j } : n \in 0..MaxSortPlanLen }

\* status filters left by the filter picker: none, create only, destroy
\* with create toggled on and off again
SortFilters ==
    { NilMap,
      MapSet(EmptyMap, ActionCreate, TRUE),
      MapSet(MapSet(EmptyMap, ActionCreate, FALSE), ActionDestroy, TRUE) }

\* the viewer's variables while a function is called on its own
ViewerIdle ==
    /\ status = "running"
    /\ updatePending = FALSE
    /\ nEvents = 0
    /\ last = [kind |-> "init", key |-> "none", mode |-> "normal"]
    /\ prevArm = FALSE
    /\ mon = MonIdle

\* sortedResources on a model with a sort order and a status filter
SortInput ==
    /\ plan \in SortPlans
    /\ \E order \in Range(sortOptions), filter \in SortFilters :
          m = [NewModel(plan, FALSE) EXCEPT !.sortOrder = order, !.statusFilters = filter]
    /\ call = [fn |-> "sortedResources", done |-> FALSE]

\* longest text and longest query handed to fuzzyMatch
MaxFuzzyTextLen == 3
MaxFuzzyQueryLen == 2

\* characters of the texts and queries: letters in both cases and
\* characters of two bytes that share bytes
FuzzyChars == {"a", "A", "q", "e-acute", "a-grave", "copyright"}

\* the strings over FuzzyChars of at most n characters
FuzzyStrings(n) == UNION {[1..k -> FuzzyChars] : k \in 0..n}

\* the viewer's variables when the function called does not read them
NoViewer == plan = <<>> /\ m = NewModel(<<>>, FALSE)

FuzzyInput ==
    /\ NoViewer
    /\ \E text \in FuzzyStrings(MaxFuzzyTextLen), query \in FuzzyStrings(MaxFuzzyQueryLen) :
          call = [fn |-> "fuzzyMatch", done |-> FALSE, text |-> text, query |-> query]

\* diff.go: the operations of a diff line
DiffEqual == 0
DiffInsert == 1
DiffDelete == 2

DiffLine(op, text) == [Op |-> op, Text |-> text]

\* maxLCSLines is 800 in diff.go; the model scales it down so that texts
\* of MaxDiffLen lines take each of the three paths of ComputeDiff
maxLCSLines == 5

\* table[i][j], rows and columns counted from 0
cell(table, i, j) == At(At(table, i), j)

\* faulty variant: on unequal lines the cell to the left is taken, the
\* cell above is never looked at
lcsCellLeft(same, diag, up, left) == IF same THEN diag + 1 ELSE left

\* lcs, the body of the inner loop: the value of table[i][j]
lcsCell(same, diag, up, left) ==
    IF same THEN diag + 1
    ELSE IF up >= left THEN up
    ELSE left

\* lcs, the inner loop over j: row i of the table from row i-1
RECURSIVE lcsRow(_, _, _, _)
lcsRow(above, oldLine, newLines, row) ==
    IF Len(row) > Len(newLines) THEN row
    ELSE lcsRow(above, oldLine, newLines,
                Append(row, lcsCell(oldLine = At(newLines, Len(row) - 1),
                                    At(above, Len(row) - 1),
                                    At(above, Len(row)),
                                    Last(row))))

\* lcs, the outer loop over i: the rows below the rows of table
RECURSIVE lcsTable(_, _, _)
lcsTable(oldLines, newLines, table) ==
    IF Len(table) > Len(oldLines) THEN table
    ELSE lcsTable(oldLines, newLines,
                  Append(table, lcsRow(Last(table), At(oldLines, Len(table) - 1),
                                       newLines, <<0>>)))

\* make([]int, n+1): a row of zeros
zeroRow(n) == [k \in 1..(n + 1) |-> 0]

\* faulty variant: a tie between the two neighbours emits a delete
takeInsertOnGreater(table, i, j) ==
    j > 0 /\ (i = 0 \/ cell(table, i, j - 1) > cell(table, i - 1, j))

\* lcs, the backtrack: the condition of the insert branch
takeInsert(table, i, j) ==
    j > 0 /\ (i = 0 \/ cell(table, i, j - 1) >= cell(table, i - 1, j))

\* lcs, the backtrack from (i, j) to (0, 0): the entries in reverse order
RECURSIVE backtrack(_, _, _, _, _, _)
backtrack(oldLines, newLines, table, i, j, result) ==
    IF ~(i > 0 \/ j > 0) THEN result
    ELSE IF i > 0 /\ j > 0 /\ At(oldLines, i - 1) = At(newLines, j - 1)
    THEN backtrack(oldLines, newLines, table, i - 1, j - 1,
                   Append(result, DiffLine(DiffEqual, At(oldLines, i - 1))))
    ELSE IF takeInsert(table, i, j)
    THEN backtrack(oldLines, newLines, table, i, j - 1,
                   Append(result, DiffLine(DiffInsert, At(newLines, j - 1))))
    ELSE backtrack(oldLines, newLines, table, i - 1, j,
                   Append(result, DiffLine(DiffDelete, At(oldLines, i - 1))))

\* lcs, the final loop: the slice reversed
Reverse(s) == [k \in 1..Len(s) |-> s[Len(s) + 1 - k]]

lcs(oldLines, newLines) ==
    Reverse(backtrack(oldLines, newLines,
                      lcsTable(oldLines, newLines, <<zeroRow(Len(newLines))>>),
                      Len(oldLines), Len(newLines), <<>>))

\* computeDiffLargeInput: the length of the common prefix, counted from k
RECURSIVE prefixLen(_, _, _, _)
prefixLen(oldLines, newLines, limit, k) ==
    IF k < limit /\ At(oldLines, k) = At(newLines, k)
    THEN prefixLen(oldLines, newLines, limit, k + 1)
    ELSE k

\* faulty variant: the suffix loop is bounded by the shorter text, not by
\* what the prefix left of it
RECURSIVE suffixLenOverlapping(_, _, _, _)
suffixLenOverlapping(oldLines, newLines, room, k) ==
    IF k < Min(Len(oldLines), Len(newLines))
       /\ At(oldLines, Len(oldLines) - 1 - k) = At(newLines, Len(newLines) - 1 - k)
    THEN suffixLenOverlapping(oldLines, newLines, room, k + 1)
    ELSE k

\* computeDiffLargeInput: the length of the common suffix that stays clear
\* of the prefix, counted from k; room is limit - prefixLen
RECURSIVE suffixLen(_, _, _, _)
suffixLen(oldLines, newLines, room, k) ==
    IF k < room /\ At(oldLines, Len(oldLines) - 1 - k) = At(newLines, Len(newLines) - 1 - k)
    THEN suffixLen(oldLines, newLines, room, k + 1)
    ELSE k

\* a run of entries of one operation, one per line
diffLines(op, lines) == [k \in 1..Len(lines) |-> DiffLine(op, lines[k])]

\* lines[lo:hi]
Slice(lines, lo, hi) == SubSeq(lines, lo + 1, hi)

\* faulty variant: the core is handed to lcs whatever its length
diffCoreAlwaysExact(oldCore, newCore) == lcs(oldCore, newCore)

\* computeDiffLargeInput: the middle part, exact or all deletes then all
\* inserts
diffCore(oldCore, newCore) ==
    IF Len(oldCore) + Len(newCore) <= maxLCSLines
    THEN lcs(oldCore, newCore)
    ELSE diffLines(DiffDelete, oldCore) \o diffLines(DiffInsert, newCore)

\* faulty variant: the common suffix is measured but not appended
diffAroundWithoutSuffix(oldLines, newLines, pre, suf) ==
    diffLines(DiffEqual, Slice(oldLines, 0, pre))
        \o diffCore(Slice(oldLines, pre, Len(oldLines) - suf),
                    Slice(newLines, pre, Len(newLines) - suf))

\* computeDiffLargeInput once the prefix and the suffix are measured
diffAround(oldLines, newLines, pre, suf) ==
    diffLines(DiffEqual, Slice(oldLines, 0, pre))
        \o diffCore(Slice(oldLines, pre, Len(oldLines) - suf),
                    Slice(newLines, pre, Len(newLines) - suf))
        \o diffLines(DiffEqual, Slice(oldLines, Len(oldLines) - suf, Len(oldLines)))

\* computeDiffLargeInput once the prefix is measured
diffAfterPrefix(oldLines, newLines, limit, pre) ==
    diffAround(oldLines, newLines, pre, suffixLen(oldLines, newLines, limit - pre, 0))

\* faulty variant: a large input is not stripped, it is all deletes then
\* all inserts
computeDiffLargeInputUnstripped(oldLines, newLines) ==
    diffLines(DiffDelete, oldLines) \o diffLines(DiffInsert, newLines)

computeDiffLargeInput(oldLines, newLines) ==
    diffAfterPrefix(oldLines, newLines, Min(Len(oldLines), Len(newLines)),
                    prefixLen(oldLines, newLines, Min(Len(oldLines), Len(newLines)), 0))

ComputeDiff(oldLines, newLines) ==
    IF Len(oldLines) + Len(newLines) > maxLCSLines
    THEN computeDiffLargeInput(oldLines, newLines)
    ELSE lcs(oldLines, newLines)

\* the arguments of the calls of lcs made by computeDiffLargeInput once
\* prefix and suffix are measured
lcsCallsAround(oldLines, newLines, pre, suf) ==
    IF (Len(oldLines) - suf - pre) + (Len(newLines) - suf - pre) <= maxLCSLines
    THEN {<<Slice(oldLines, pre, Len(oldLines) - suf), Slice(newLines, pre, Len(newLines) - suf)>>}
    ELSE {}

lcsCallsAfterPrefix(oldLines, newLines, limit, pre) ==
    lcsCallsAround(oldLines, newLines, pre, suffixLen(oldLines, newLines, limit - pre, 0))

\* the arguments of the calls of lcs made by ComputeDiff(oldLines, newLines)
lcsCalls(oldLines, newLines) ==
    IF Len(oldLines) + Len(newLines) > maxLCSLines
    THEN lcsCallsAfterPrefix(oldLines, newLines, Min(Len(oldLines), Len(newLines)),
                             prefixLen(oldLines, newLines, Min(Len(oldLines), Len(newLines)), 0))
    ELSE {<<oldLines, newLines>>}

\* most lines of a text handed to ComputeDiff
MaxDiffLen == 4

\* the lines of the texts
DiffTexts == {"a", "b", "c", "x"}

\* the texts of at most MaxDiffLen lines
DiffInputs == UNION {[1..k -> DiffTexts] : k \in 0..MaxDiffLen}

DiffInput ==
    /\ NoViewer
    /\ \E oldLines \in DiffInputs, newLines \in DiffInputs :
          call = [fn |-> "ComputeDiff", done |-> FALSE,
                  oldLines |-> oldLines, newLines |-> newLines]

FnInit ==
    /\ ViewerIdle
    /\ \/ SortInput
       \/ FuzzyInput
       \/ DiffInput

\* the function returns
Return(out) ==
    /\ ~call.done
    /\ call' = [call EXCEPT !.done = TRUE] @@ [out |-> out]
    /\ UNCHANGED <<plan, m, status, updatePending, nEvents, last, prevArm, mon>>

CallSortedResources ==
    /\ call.fn = "sortedResources"
    /\ Return(sortedResources(m, plan))

CallFuzzyMatch ==
    /\ call.fn = "fuzzyMatch"
    /\ Return(fuzzyMatch(call.text, call.query))

CallComputeDiff ==
    /\ call.fn = "ComputeDiff"
    /\ Return(ComputeDiff(call.oldLines, call.newLines))

FnNext ==
    \/ CallSortedResources
    \/ CallFuzzyMatch
    \/ CallComputeDiff

SpecFunctions == FnInit /\ [][FnNext]_vars

----------------------------------------------------------------------------
(* ContextDiff, called on its own *)

DiffSeparator == 3

\* faulty variant: a negative context size is taken as none
contextSizeOrNone(contextSize) == IF contextSize < 0 THEN 0 ELSE contextSize

\* ContextDiff: the context size after its first test
contextSizeOf(contextSize) == IF contextSize < 0 THEN 3 ELSE contextSize

\* faulty variant: only inserts count as changes
hasInserts(diff) == \E i \in 1..Len(diff) : diff[i].Op = DiffInsert

\* ContextDiff: the hasChanges loop
hasChanges(diff) == \E i \in 1..Len(diff) : diff[i].Op # DiffEqual

\* ContextDiff: for k := lo; k <= hi; k++ { keep[k] = true }
markRange(keep, lo, hi) == [k \in 1..Len(keep) |-> keep[k] \/ (lo <= k - 1 /\ k - 1 <= hi)]

\* ContextDiff: hi := i + contextSize, cut at len(diff) - 1
hiOf(i, contextSize, n) == IF i + contextSize >= n THEN n - 1 ELSE i + contextSize

\* ContextDiff: the loop that fills keep, from entry i on
RECURSIVE markChanges(_, _, _, _)
markChanges(diff, contextSize, i, keep) ==
    IF i >= Len(diff) THEN keep
    ELSE markChanges(diff, contextSize, i + 1,
                     IF At(diff, i).Op # DiffEqual
                     THEN markRange(keep, Max(0, i - contextSize),
                                    hiOf(i, contextSize, Len(diff)))
                     ELSE keep)

\* ContextDiff: the loop that builds the result, from entry i on
RECURSIVE collapse(_, _, _, _, _)
collapse(diff, keep, i, inGap, result) ==
    IF i >= Len(diff) THEN result
    ELSE IF At(keep, i)
    THEN collapse(diff, keep, i + 1, FALSE,
                  IF inGap
                  THEN result \o <<DiffLine(DiffSeparator, "@@"), At(diff, i)>>
                  ELSE Append(result, At(diff, i)))
    ELSE collapse(diff, keep, i + 1, TRUE, result)

\* ContextDiff once the context size is settled; the nil slice returned
\* for a diff without changes is the empty sequence
contextDiffOf(diff, contextSize) ==
    IF ~hasChanges(diff) THEN <<>>
    ELSE collapse(diff, markChanges(diff, contextSize, 0, [k \in 1..Len(diff) |-> FALSE]),
                  0, FALSE, <<>>)

ContextDiff(diff, contextSize) == contextDiffOf(diff, contextSizeOf(contextSize))

\* most entries of a diff handed to ContextDiff
MaxContextDiffLen == 5

\* the entries of the diffs: the operations ComputeDiff gives, two texts
ContextEntries == {DiffLine(op, text) : op \in {DiffEqual, DiffInsert, DiffDelete},
                                        text \in {"a", "b"}}

ContextDiffs == UNION {[1..k -> ContextEntries] : k \in 0..MaxContextDiffLen}

\* the context sizes: negative, none, and up to the default of three
ContextSizes == {-1, 0, 1, 2, 3}

CtxInit ==
    /\ ViewerIdle /\ NoViewer
    /\ \E diff \in ContextDiffs, contextSize \in ContextSizes :
          call = [fn |-> "ContextDiff", done |-> FALSE,
                  diff |-> diff, contextSize |-> contextSize]

CallContextDiff ==
    /\ call.fn = "ContextDiff"
    /\ Return(ContextDiff(call.diff, call.contextSize))

CtxNext == CallContextDiff

SpecContextDiff == CtxInit /\ [][CtxNext]_vars

----------------------------------------------------------------------------
(* parser: Parse and the functions it calls. A string is the sequence of
   its pieces: words, symbols, single spaces, and "\n" between lines. *)

\* strings.ToLower on one piece of a line
lowerWord(w) ==
    CASE w = "Created" -> "created"
      [] w = "Destroyed" -> "destroyed"
      [] w = "Plan" -> "plan"
      [] OTHER -> w

ToLowerWords(s) == [i \in DOMAIN s |-> lowerWord(s[i])]

\* a string literal of words separated by single spaces
Phrase(words) ==
    [i \in 1..(2 * Len(words) - 1) |-> IF i % 2 = 1 THEN words[(i + 1) \div 2] ELSE " "]

\* s[i:] begins with substr (i counted from 1)
HasAt(s, i, substr) ==
    /\ i >= 1 /\ i + Len(substr) - 1 <= Len(s)
    /\ SubSeq(s, i, i + Len(substr) - 1) = substr

\* strings.Contains
Contains(s, substr) == \E i \in 1..Len(s) : HasAt(s, i, substr)

\* strings.Index, counted from 1; 0 when s does not contain substr
IndexOf(s, substr) ==
    IF Contains(s, substr)
    THEN CHOOSE i \in 1..Len(s) :
            HasAt(s, i, substr) /\ \A j \in 1..(i - 1) : ~HasAt(s, j, substr)
    ELSE 0

\* parseActionFromLine on the lower-cased line
parseActionLowered(lower) ==
    IF Contains(lower, Phrase(<<"will", "be", "created">>))
          \/ Contains(lower, Phrase(<<"has", "been", "created">>)) THEN ActionCreate
    ELSE IF Contains(lower, Phrase(<<"will", "be", "destroyed">>))
          \/ Contains(lower, Phrase(<<"must", "be", "destroyed">>)) THEN ActionDestroy
    ELSE IF Contains(lower, Phrase(<<"will", "be", "updated">>))
          \/ Contains(lower, Phrase(<<"has", "been", "changed">>)) THEN ActionUpdate
    ELSE IF Contains(lower, Phrase(<<"must", "be", "replaced">>))
          \/ Contains(lower, Phrase(<<"will", "be", "replaced">>)) THEN ActionReplace
    ELSE IF Contains(lower, Phrase(<<"will", "be", "read">>)) THEN ActionRead
    ELSE IF Contains(lower, Phrase(<<"is", "tainted">>)) THEN ActionReplace
    ELSE IF Contains(lower, Phrase(<<"destroyed", "and", "then", "created">>))
          \/ Contains(lower, <<"-/+">>) THEN ActionDeleteCreate
    ELSE IF Contains(lower, Phrase(<<"created", "and", "then", "destroyed">>))
          \/ Contains(lower, <<"+/-">>) THEN ActionCreateDelete
    ELSE ActionUpdate

parseActionFromLine(line) == parseActionLowered(ToLowerWords(line))

\* the number of white-space pieces of s from index i on
RECURSIVE spacesFrom(_, _)
spacesFrom(s, i) ==
    IF i <= Len(s) /\ s[i] = " " THEN 1 + spacesFrom(s, i + 1) ELSE 0

\* strings.TrimSpace
TrimSpace(s) ==
    IF spacesFrom(s, 1) = Len(s) THEN <<>>
    ELSE SubSeq(s, spacesFrom(s, 1) + 1, Len(s) - spacesFrom(Reverse(s), 1))

\* strings.Split(s, sep) for a separator of one piece
RECURSIVE SplitAcc(_, _, _, _)
SplitAcc(s, sep, cur, acc) ==
    IF s = <<>> THEN Append(acc, cur)
    ELSE IF Head(s) = sep THEN SplitAcc(Tail(s), sep, <<>>, Append(acc, cur))
    ELSE SplitAcc(Tail(s), sep, Append(cur, Head(s)), acc)

Split(s, sep) == SplitAcc(s, sep, <<>>, <<>>)

\* strings.Count(s, w) for one piece w
Count(s, w) == Cardinality({i \in DOMAIN s : s[i] = w})

\* the rest of s from index i on
From(s, i) == SubSeq(s, i, Len(s))

isNewFormat(lines) ==
    \E i \in DOMAIN lines :
        /\ Contains(lines[i], <<"#", " ">>)
        /\ \/ Contains(lines[i], <<" ", "will", " ", "be", " ">>)
           \/ Contains(lines[i], <<" ", "must", " ", "be", " ">>)
           \/ Contains(lines[i], <<" ", "has", " ", "been", " ">>)
           \/ Contains(lines[i], <<" ", "is", " ", "tainted">>)

\* an Attribute from a value; "(sensitive" is found in the piece
\* "(sensitive value)"
Attribute(name, oldValue, newValue, action, value) ==
    [Name |-> name, OldValue |-> oldValue, NewValue |-> newValue, Action |-> action,
     Computed |-> Contains(value, <<"(known after apply)">>),
     Sensitive |-> Contains(value, <<"(sensitive value)">>)]

parseNewFormatAttrFromMatch(symbol, name, value) ==
    IF symbol = "+" THEN Attribute(name, <<>>, value, ActionCreate, value)
    ELSE IF symbol = "-" THEN Attribute(name, value, <<>>, ActionDestroy, value)
    ELSE IF Contains(value, <<" ", "->", " ">>)
    THEN Attribute(name, TrimSpace(SubSeq(value, 1, IndexOf(value, <<" ", "->", " ">>) - 1)),
                   TrimSpace(From(value, IndexOf(value, <<" ", "->", " ">>) + 3)),
                   ActionUpdate, value)
    ELSE Attribute(name, <<>>, value, ActionUpdate, value)

parseNewFormatAttrSimple(symbol, content) ==
    [Name |-> content, OldValue |-> <<>>, NewValue |-> <<>>,
     Action |-> IF symbol = "+" THEN ActionCreate
                ELSE IF symbol = "-" THEN ActionDestroy ELSE ActionUpdate,
     Computed |-> FALSE, Sensitive |-> FALSE]

Most(S) == CHOOSE x \in S : \A y \in S : y <= x

Least(S) == CHOOSE x \in S : \A y \in S : x <= y

\* resourceRegex: the alternatives after the address
resourceKeywords ==
    {Phrase(<<"will", "be">>), Phrase(<<"must", "be">>), Phrase(<<"has", "been">>),
     Phrase(<<"is", "tainted">>)}

\* resourceRegex: the ends of a capture (.+?) that starts at p: white space
\* and one of the alternatives follow
captureEnds(line, p) ==
    {e \in p..Len(line) :
        /\ spacesFrom(line, e + 1) >= 1
        /\ \E kw \in resourceKeywords : HasAt(line, e + spacesFrom(line, e + 1) + 1, kw)}

\* resourceRegex: the lengths \s+ can take after the '#' at index hash
headerSpaces(line, hash) ==
    {w \in 1..spacesFrom(line, hash + 1) : captureEnds(line, hash + w + 1) # {}}

\* resourceRegex with the '#' at index hash: \s+ takes the most it can, the
\* capture the least; <<match[1]>>, or <<>> when there is no match
resourceMatchAt(line, hash) ==
    IF ~HasAt(line, hash, <<"#">>) \/ headerSpaces(line, hash) = {} THEN <<>>
    ELSE <<SubSeq(line, hash + Most(headerSpaces(line, hash)) + 1,
                  Least(captureEnds(line, hash + Most(headerSpaces(line, hash)) + 1)))>>

resourceMatch(line) == resourceMatchAt(line, spacesFrom(line, 1) + 1)

\* attrRegex: what follows the name that ends before index t: an optional
\* quote, white space, '='; the index of the '=' or 0
equalsAfter(line, t) ==
    IF HasAt(line, t, <<"\"">>)
    THEN (IF HasAt(line, t + 1 + spacesFrom(line, t + 1), <<"=">>)
          THEN t + 1 + spacesFrom(line, t + 1) ELSE 0)
    ELSE (IF HasAt(line, t + spacesFrom(line, t), <<"=">>)
          THEN t + spacesFrom(line, t) ELSE 0)

\* attrRegex with the symbol at index sym: the ways to match, as
\* <<white space taken, opening quote taken, length of the name>>
attrMatches(line, sym) ==
    {c \in (1..spacesFrom(line, sym + 1)) \X {0, 1} \X (1..Len(line)) :
        /\ c[2] = 1 => HasAt(line, sym + c[1] + 1, <<"\"">>)
        /\ sym + c[1] + c[2] + c[3] <= Len(line)
        /\ \A j \in (sym + c[1] + c[2] + 1)..(sym + c[1] + c[2] + c[3]) :
              line[j] \notin {"\"", "="}
        /\ equalsAfter(line, sym + c[1] + c[2] + c[3] + 1) > 0}

\* the match the regexp package returns: each greedy operator takes the
\* most it can, the earlier ones first
attrBest(S) ==
    CHOOSE c \in S : \A d \in S :
        \/ c[1] > d[1]
        \/ c[1] = d[1] /\ c[2] > d[2]
        \/ c[1] = d[1] /\ c[2] = d[2] /\ c[3] >= d[3]

\* the attribute of a line that attrRegex matches as c
attrOfMatch(line, sym, c) ==
    parseNewFormatAttrFromMatch(
        line[sym],
        TrimSpace(SubSeq(line, sym + c[1] + c[2] + 1, sym + c[1] + c[2] + c[3])),
        TrimSpace(From(line, equalsAfter(line, sym + c[1] + c[2] + c[3] + 1) + 1)))

\* ^\s+([~+\-])\s+ at the start of attrRegex and attrRegex2
attrSymbolAt(line, sym) ==
    sym >= 2 /\ sym + 1 <= Len(line) /\ line[sym] \in {"~", "+", "-"} /\ line[sym + 1] = " "

\* parseNewFormat: the attributes a body line adds
newFormatAttrs(line, sym) ==
    IF ~attrSymbolAt(line, sym) THEN <<>>
    ELSE IF attrMatches(line, sym) # {}
    THEN <<attrOfMatch(line, sym, attrBest(attrMatches(line, sym)))>>
    ELSE IF sym + 2 <= Len(line)
    THEN <<parseNewFormatAttrSimple(line[sym], TrimSpace(From(line, sym + 2)))>>
    ELSE <<>>

\* faulty variant: the first two segments, not the last two
parseResourceAddressFromFront(r, parts) ==
    IF Len(parts) >= 2
    THEN [r EXCEPT !.Type = parts[1], !.Name = parts[2]]
    ELSE r

\* parseResourceAddress, and the same lines of parseNewFormat
parseResourceAddress(r, parts) ==
    IF Len(parts) >= 2
    THEN [r EXCEPT !.Type = parts[Len(parts) - 1], !.Name = parts[Len(parts)]]
    ELSE r

\* &Resource{Address: address, Action: action, RawLines: []string{line}}
\* with its Type and Name filled in
startResource(address, action, line) ==
    parseResourceAddress([Address |-> address, Type |-> <<>>, Name |-> <<>>,
                          Action |-> action, Attributes |-> <<>>, RawLines |-> <<line>>],
                         Split(address, "."))

\* the local variables of parseNewFormat before the loop; current is
\* <<*currentResource>>, or <<>> for nil
newFormatStart ==
    [Resources |-> <<>>, current |-> <<>>, inResourceBlock |-> FALSE, braceCount |-> 0]

\* parseNewFormat: a line of an open resource block
newFormatBodyLine(st, line, braceCount) ==
    [st EXCEPT !.current[1].RawLines = Append(@, line),
               !.current[1].Attributes = @ \o newFormatAttrs(line, spacesFrom(line, 1) + 1),
               !.braceCount = braceCount,
               !.inResourceBlock = ~(braceCount <= 0 /\ TrimSpace(line) = <<"}">>)]

\* faulty variant: a header does not flush the resource in progress
newFormatLineDropsCurrent(st, line) ==
    IF resourceMatch(line) # <<>>
    THEN [Resources |-> st.Resources,
          current |-> <<startResource(TrimSpace(resourceMatch(line)[1]),
                                      parseActionFromLine(line), line)>>,
          inResourceBlock |-> TRUE, braceCount |-> 0]
    ELSE IF st.inResourceBlock /\ st.current # <<>>
    THEN newFormatBodyLine(st, line, st.braceCount + Count(line, "{") - Count(line, "}"))
    ELSE st

\* parseNewFormat: one pass of the loop
newFormatLine(st, line) ==
    IF resourceMatch(line) # <<>>
    THEN [Resources |-> st.Resources \o st.current,
          current |-> <<startResource(TrimSpace(resourceMatch(line)[1]),
                                      parseActionFromLine(line), line)>>,
          inResourceBlock |-> TRUE, braceCount |-> 0]
    ELSE IF st.inResourceBlock /\ st.current # <<>>
    THEN newFormatBodyLine(st, line, st.braceCount + Count(line, "{") - Count(line, "}"))
    ELSE st

\* the loop of parseNewFormat from line i on
RECURSIVE newFormatLoop(_, _, _)
newFormatLoop(st, lines, i) ==
    IF i > Len(lines) THEN st
    ELSE newFormatLoop(newFormatLine(st, lines[i]), lines, i + 1)

\* plan.Resources after parseNewFormat
parseNewFormat(lines) ==
    newFormatLoop(newFormatStart, lines, 1).Resources
        \o newFormatLoop(newFormatStart, lines, 1).current

\* oldFormatPatterns: the symbol, the action, noColon
oldFormatPatterns ==
    << <<"+", ActionCreate, TRUE>>, <<"-", ActionDestroy, TRUE>>,
       <<"~", ActionUpdate, TRUE>>, <<"-/+", ActionReplace, FALSE>>,
       <<"+/-", ActionCreateDelete, FALSE>> >>

\* faulty variant: noColon is not looked at
oldFormatMatchesAnyColon(line, p) ==
    Len(line) >= 3 /\ line[1] = p[1] /\ line[2] = " "

\* parseOldFormatResourceLine: pattern p is not skipped and its regexp,
\* ^symbol\s+(.+)$, matches
oldFormatMatches(line, p) ==
    /\ ~(p[3] /\ Contains(line, <<":">>))
    /\ Len(line) >= 3 /\ line[1] = p[1] /\ line[2] = " "

\* parseOldFormatResourceLine: <<address, action>> of the first pattern
\* that matches, or <<>> when ok is false
parseOldFormatResourceLine(line) ==
    IF \E k \in DOMAIN oldFormatPatterns : oldFormatMatches(line, oldFormatPatterns[k])
    THEN <<TrimSpace(From(line, 3)),
           oldFormatPatterns[Least({k \in DOMAIN oldFormatPatterns :
                                       oldFormatMatches(line, oldFormatPatterns[k])})][2]>>
    ELSE <<>>

\* parseOldFormatAttrLine once the line matched ^\s+([^:]+):\s*(.*)$
oldFormatAttr(name, value, action) ==
    IF Contains(value, <<" ", "=>", " ">>)
    THEN [Name |-> name,
          OldValue |-> TrimSpace(SubSeq(value, 1, IndexOf(value, <<" ", "=>", " ">>) - 1)),
          NewValue |-> TrimSpace(From(value, IndexOf(value, <<" ", "=>", " ">>) + 3)),
          Action |-> ActionUpdate,
          Computed |-> Contains(value, <<"<computed>">>), Sensitive |-> FALSE]
    ELSE [Name |-> name, OldValue |-> <<>>, NewValue |-> value, Action |-> action,
          Computed |-> Contains(value, <<"<computed>">>), Sensitive |-> FALSE]

\* parseOldFormatAttrLine: <<attr>>, or <<>> for nil; colon is the index
\* of the first ':' of the line, 0 when it has none
parseOldFormatAttrLine(line, action, colon) ==
    IF Len(line) >= 1 /\ line[1] = " " /\ colon >= 3
    THEN <<oldFormatAttr(TrimSpace(SubSeq(line, 2, colon - 1)),
                         TrimSpace(From(line, colon + 1)), action)>>
    ELSE <<>>

\* parseOldFormat: one pass of the loop; current is <<*currentResource>>
oldFormatLine(st, line) ==
    IF TrimSpace(line) = <<>> THEN st
    ELSE IF parseOldFormatResourceLine(line) # <<>>
    THEN [Resources |-> st.Resources \o st.current,
          current |-> <<startResource(parseOldFormatResourceLine(line)[1],
                                      parseOldFormatResourceLine(line)[2], line)>>]
    ELSE IF st.current # <<>>
    THEN [st EXCEPT !.current[1].RawLines = Append(@, line),
                    !.current[1].Attributes =
                        @ \o parseOldFormatAttrLine(line, st.current[1].Action,
                                                    IndexOf(line, <<":">>))]
    ELSE st

RECURSIVE oldFormatLoop(_, _, _)
oldFormatLoop(st, lines, i) ==
    IF i > Len(lines) THEN st
    ELSE oldFormatLoop(oldFormatLine(st, lines[i]), lines, i + 1)

\* plan.Resources after parseOldFormat
parseOldFormat(lines) ==
    oldFormatLoop([Resources |-> <<>>, current |-> <<>>], lines, 1).Resources
        \o oldFormatLoop([Resources |-> <<>>, current |-> <<>>], lines, 1).current

\* \d
Digits == {"0", "1", "2"}

\* the number of digits of s from index i on
RECURSIVE digitsFrom(_, _)
digitsFrom(s, i) ==
    IF i <= Len(s) /\ s[i] \in Digits THEN 1 + digitsFrom(s, i + 1) ELSE 0

\* fmt.Sscanf(digits, "%d", &n)
RECURSIVE Sscanf(_)
Sscanf(digits) ==
    IF digits = <<>> THEN 0
    ELSE 10 * Sscanf(Front(digits))
            + (CASE Last(digits) = "0" -> 0 [] Last(digits) = "1" -> 1 [] OTHER -> 2)

\* summaryRegex: \s*(\d+)\s* from index p on, as <<first digit, digits,
\* index after the match>>; <<>> when there is no digit
numberAt(line, p) ==
    LET first == p + spacesFrom(line, p)
        digits == digitsFrom(line, first)
    IN  IF digits = 0 THEN <<>>
        ELSE <<first, digits, first + digits + spacesFrom(line, first + digits)>>

\* summaryRegex: a number at index p followed by "to <what>", as numberAt;
\* p is 0 when what comes before did not match
countAt(line, p, what) ==
    IF p > 0 /\ numberAt(line, p) # <<>>
          /\ HasAt(line, numberAt(line, p)[3], <<"to", " ", what>>)
    THEN numberAt(line, p) ELSE <<>>

\* the index after the match countAt gave, 0 when it gave none
afterCount(c) == IF c = <<>> THEN 0 ELSE c[3] + 3

\* summaryRegex matched from index i on: match[1], match[2], match[3], or
\* <<>> when it does not match there
summaryAt(line, i) ==
    LET add == countAt(line, i + 2, "add,")
        change == countAt(line, afterCount(add), "change,")
        destroy == countAt(line, afterCount(change), "destroy")
    IN  IF HasAt(line, i, <<"Plan", ":">>) /\ destroy # <<>>
        THEN <<add, change, destroy>> ELSE <<>>

\* summaryRegex.FindStringSubmatch: the leftmost match, <<>> for nil
summaryMatch(line) ==
    IF \E i \in 1..Len(line) : summaryAt(line, i) # <<>>
    THEN summaryAt(line, Least({i \in 1..Len(line) : summaryAt(line, i) # <<>>}))
    ELSE <<>>

\* Sscanf on one submatch
scanCount(line, c) == Sscanf(SubSeq(line, c[1], c[1] + c[2] - 1))

\* parseSummary: the body of the loop on the first line that matches
setSummary(p, line, match) ==
    [p EXCEPT !.Summary = line,
              !.TotalAdd = scanCount(line, match[1]),
              !.TotalChange = scanCount(line, match[2]),
              !.TotalDestroy = scanCount(line, match[3])]

parseSummary(p, lines) ==
    IF \E k \in DOMAIN lines : summaryMatch(lines[k]) # <<>>
    THEN setSummary(p, lines[Least({k \in DOMAIN lines : summaryMatch(lines[k]) # <<>>})],
                    summaryMatch(lines[Least({k \in DOMAIN lines :
                                                 summaryMatch(lines[k]) # <<>>})]))
    ELSE p

\* faulty variant: the totals start at the number of lines, not at zero
parsedPlanCounting(input, lines) ==
    [Resources |-> IF isNewFormat(lines) THEN parseNewFormat(lines)
                   ELSE parseOldFormat(lines),
     Summary |-> <<>>, TotalAdd |-> Len(lines), TotalChange |-> 0, TotalDestroy |-> 0,
     RawPlan |-> input]

\* &Plan{RawPlan: input} after parseNewFormat or parseOldFormat
parsedPlan(input, lines) ==
    [Resources |-> IF isNewFormat(lines) THEN parseNewFormat(lines)
                   ELSE parseOldFormat(lines),
     Summary |-> <<>>, TotalAdd |-> 0, TotalChange |-> 0, TotalDestroy |-> 0,
     RawPlan |-> input]

\* Parse: the plan and the error it returns
Parse(input) ==
    [plan |-> parseSummary(parsedPlan(input, Split(input, "\n")), Split(input, "\n")),
     err |-> "nil"]

\* strings.Join(lines, "\n"): the input text of some lines
RECURSIVE JoinLines(_)
JoinLines(lines) ==
    IF lines = <<>> THEN <<>>
    ELSE IF Len(lines) = 1 THEN lines[1]
    ELSE lines[1] \o <<"\n">> \o JoinLines(Tail(lines))

\* most lines of an input of Parse built from the lines below
MaxPlanLines == 3

\* lines of a plan in the new format: three headers
HeaderCreate == <<"#", " ", "a", ".", "b", " ">> \o Phrase(<<"will", "be", "created">>)

HeaderUpdate ==
    <<" ", " ", "#", " ", "m", ".", "a", ".", "b", " ">>
        \o Phrase(<<"will", "be", "updated", "in-place">>)

HeaderDestroy == <<"#", " ", "a", " ">> \o Phrase(<<"will", "be", "destroyed">>)

\* the lines of a resource block
BlockOpen == <<" ", " ", "+", " ", "resource", " ", "{">>

BlockAttr ==
    <<" ", " ", " ", "~", " ", "ami", " ", "=", " ", "\"", "x", "\"", " ", "->", " ",
      "(known after apply)">>

BlockClose == <<" ", " ", "}">>

\* a line that has the marks of the new format and is no header
NotHeader == <<"x", " ", "#", " ", "y", " ">> \o Phrase(<<"will", "be", "z">>)

\* summary lines
Summary111 ==
    <<"Plan", ":", " ", "1", " ">>
        \o Phrase(<<"to", "add,", "1", "to", "change,", "1", "to", "destroy">>) \o <<".">>

Summary2010 ==
    <<"Plan", ":", " ", "2", " ">> \o Phrase(<<"to", "add,", "0", "to", "change,">>)
        \o <<" ", "1", "0", " ">> \o Phrase(<<"to", "destroy">>)

NewFormatLines ==
    {HeaderCreate, HeaderUpdate, HeaderDestroy, BlockOpen, BlockAttr, BlockClose,
     NotHeader, Summary111, Summary2010}

\* lines of a plan in the old format: resource lines with and without a
\* colon, an attribute line, a blank line
OldCreate == <<"+", " ", "a", ".", "b">>

OldDestroy == <<"-", " ", "a", ".", "b">>

OldUpdate == <<"~", " ", "m", ".", "a", ".", "b">>

OldAttr == <<" ", " ", "ami", ":", " ", "x", " ", "=>", " ", "<computed>">>

OldFormatLines ==
    {OldCreate, OldDestroy, OldUpdate,
     <<"-/+", " ", "a", ".", "b", ":", " ", "x">>,
     <<"+/-", " ", "a">>,
     <<"+", " ", "a", ".", "b", ":", " ", "x">>,
     OldAttr, <<" ">>, Summary111}

\* the inputs of TestParseNewFormat, TestParseOldFormat and
\* TestParseEmptyPlan, shortened
TestInputs ==
    { <<<<>>, HeaderCreate, BlockOpen, BlockAttr, BlockClose, <<>>,
        HeaderUpdate, BlockOpen, BlockAttr, BlockClose, <<>>,
        HeaderDestroy, BlockOpen, BlockClose, <<>>, Summary111, <<>>>>,
      <<<<>>, OldCreate, OldAttr, <<>>, OldUpdate, OldAttr, <<>>, OldDestroy, <<>>,
        Summary111, <<>>>>,
      <<<<>>, <<"No", " ", "changes", ".">>, <<>>>> }

\* the input texts: the inputs of the tests, and up to MaxPlanLines lines,
\* all of one format
PlanTexts ==
    {JoinLines(ls) :
        ls \in TestInputs \cup UNION {[1..n -> NewFormatLines] \cup [1..n -> OldFormatLines] :
                                         n \in 0..MaxPlanLines}}

\* header lines for parseActionFromLine: '# a.b', a phrase, what follows it
ActionLeads ==
    {Phrase(<<"will", "be">>), Phrase(<<"must", "be">>), Phrase(<<"has", "been">>), <<"is">>}

ActionVerbs ==
    {"created", "destroyed", "updated", "changed", "replaced", "read", "tainted",
     "imported", "Created", "Destroyed"}

ActionTails ==
    {<<>>, <<" ">> \o Phrase(<<"and", "then", "created">>),
     <<" ">> \o Phrase(<<"and", "then", "destroyed">>), <<" ", "in-place">>}

ActionLines ==
    {<<" ", " ", "#", " ", "a", ".", "b", " ">> \o lead \o <<" ", verb>> \o tail :
        lead \in ActionLeads, verb \in ActionVerbs, tail \in ActionTails}

\* longest line handed to parseOldFormatResourceLine on its own
MaxOldLineLen == 4

OldLinePieces == {"+", "-", "~", "-/+", "+/-", " ", ":", "a"}

OldLines == UNION {[1..n -> OldLinePieces] : n \in 0..MaxOldLineLen}

\* longest address handed to parseResourceAddress on its own
MaxAddressLen == 5

\* the addresses: segments 'a' and 'b' and dots in any order, and the
\* module-qualified address module.foo.aws_instance.bar
Addresses ==
    UNION {[1..n -> {"a", "b", "."}] : n \in 0..MaxAddressLen}
        \cup {<<"module", ".", "foo", ".", "aws_instance", ".", "bar">>}

ParserInit ==
    /\ ViewerIdle /\ NoViewer
    /\ \/ \E input \in PlanTexts : call = [fn |-> "Parse", done |-> FALSE, input |-> input]
       \/ \E line \in ActionLines :
             call = [fn |-> "parseActionFromLine", done |-> FALSE, line |-> line]
       \/ \E line \in OldLines :
             call = [fn |-> "parseOldFormatResourceLine", done |-> FALSE, line |-> line]
       \/ \E address \in Addresses :
             call = [fn |-> "parseResourceAddress", done |-> FALSE,
                     r |-> [Address |-> address, Type |-> <<>>, Name |-> <<>>,
                            Action |-> ActionCreate, Attributes |-> <<>>,
                            RawLines |-> <<>>]]

CallParse ==
    /\ call.fn = "Parse"
    /\ Return(Parse(call.input))

CallParseActionFromLine ==
    /\ call.fn = "parseActionFromLine"
    /\ Return(parseActionFromLine(call.line))

CallParseOldFormatResourceLine ==
    /\ call.fn = "parseOldFormatResourceLine"
    /\ Return(parseOldFormatResourceLine(call.line))

CallParseResourceAddress ==
    /\ call.fn = "parseResourceAddress"
    /\ Return(parseResourceAddress(call.r, Split(call.r.Address, ".")))

ParserNext ==
    \/ CallParse
    \/ CallParseActionFromLine
    \/ CallParseOldFormatResourceLine
    \/ CallParseResourceAddress

SpecParser == ParserInit /\ [][ParserNext]_vars

----------------------------------------------------------------------------
(* User data decoding: userdata.go. A decoded value is a sequence of
   bytes, each a number in 0..255. *)

\* encoding/base64: the standard alphabet, and the URL one that ends in
\* '-' and '_' in place of '+' and '/'
encodeStd ==
    <<"A", "B", "C", "D", "E", "F", "G", "H", "I", "J", "K", "L", "M",
      "N", "O", "P", "Q", "R", "S", "T", "U", "V", "W", "X", "Y", "Z",
      "a", "b", "c", "d", "e", "f", "g", "h", "i", "j", "k", "l", "m",
      "n", "o", "p", "q", "r", "s", "t", "u", "v", "w", "x", "y", "z",
      "0", "1", "2", "3", "4", "5", "6", "7", "8", "9", "+", "/">>

encodeURL == SubSeq(encodeStd, 1, 62) \o <<"-", "_">>

\* the four encodings that tryBase64Variants tries, in its order
StdEncoding == [encode |-> encodeStd, padded |-> TRUE]
URLEncoding == [encode |-> encodeURL, padded |-> TRUE]
RawStdEncoding == [encode |-> encodeStd, padded |-> FALSE]
RawURLEncoding == [encode |-> encodeURL, padded |-> FALSE]

\* the six bits a character stands for in an encoding, -1 for a
\* character outside its alphabet
decodeMap(enc, c) ==
    IF \E i \in DOMAIN enc.encode : enc.encode[i] = c
    THEN (CHOOSE i \in DOMAIN enc.encode : enc.encode[i] = c) - 1
    ELSE -1

\* the number of characters of the alphabet that s begins with, four at most
RECURSIVE quantumLen(_, _, _)
quantumLen(enc, s, j) ==
    IF j < 4 /\ j < Len(s) /\ decodeMap(enc, s[j + 1]) >= 0
    THEN quantumLen(enc, s, j + 1)
    ELSE j

\* the 24 bits of the first j characters of s, the missing ones zero
RECURSIVE quantumBits(_, _, _)
quantumBits(enc, s, j) ==
    IF j = 0 THEN 0
    ELSE quantumBits(enc, s, j - 1) + decodeMap(enc, s[j]) * 2 ^ (6 * (4 - j))

\* the j - 1 bytes that a quantum of j characters decodes to
quantumBytes(val, j) ==
    SubSeq(<<val \div 65536, (val \div 256) % 256, val % 256>>, 1, j - 1)

\* Encoding.DecodeString: quanta of four characters; the last one is
\* filled with '=' in a padded encoding and is short in a raw one, where
\* '=' is no character of the input. Bits left over in the last quantum
\* are dropped. ok is err == nil.
RECURSIVE decodeFrom(_, _, _, _)
decodeFrom(enc, s, j, acc) ==
    CASE s = <<>> -> [ok |-> TRUE, bytes |-> acc]
      [] j = 4 ->
            decodeFrom(enc, SubSeq(s, 5, Len(s)),
                       quantumLen(enc, SubSeq(s, 5, Len(s)), 0),
                       acc \o quantumBytes(quantumBits(enc, s, 4), 4))
      [] j < 4 /\ j = Len(s) ->
            IF j = 1 \/ enc.padded THEN [ok |-> FALSE, bytes |-> acc]
            ELSE [ok |-> TRUE,
                  bytes |-> acc \o quantumBytes(quantumBits(enc, s, j), j)]
      [] OTHER ->
            IF /\ enc.padded
               /\ s[j + 1] = "="
               /\ \/ j = 3 /\ Len(s) = 4
                  \/ j = 2 /\ Len(s) = 4 /\ s[4] = "="
            THEN [ok |-> TRUE,
                  bytes |-> acc \o quantumBytes(quantumBits(enc, s, j), j)]
            ELSE [ok |-> FALSE, bytes |-> acc]

DecodeString(enc, s) == decodeFrom(enc, s, quantumLen(enc, s, 0), <<>>)

\* strings.ReplaceAll(s, old, ""), old a single character
RECURSIVE ReplaceAll(_, _)
ReplaceAll(s, old) ==
    IF s = <<>> THEN <<>>
    ELSE IF Head(s) = old THEN ReplaceAll(Tail(s), old)
    ELSE <<Head(s)>> \o ReplaceAll(Tail(s), old)

stripBase64Whitespace(s) == ReplaceAll(ReplaceAll(ReplaceAll(s, "\n"), "\r"), " ")

\* what compress/gzip makes of a stream that begins with the magic
\* bytes: NewReader or ReadAll reports an error, or ReadAll returns the
\* content; a panic is the outcome that the deferred recover of
\* TryDecodeUserdata provides for
GzipOutcomes ==
    {[kind |-> "error"], [kind |-> "panic"]}
        \cup {[kind |-> "content", bytes |-> b] :
                 b \in {<<>>, <<104, 105>>, <<104, 0>>, <<255>>, <<195, 169>>}}

\* a decoding stage's failure, a panic in it, and its result
Failed == [ok |-> FALSE, panic |-> FALSE, bytes |-> <<>>]
Panicked == [ok |-> FALSE, panic |-> TRUE, bytes |-> <<>>]
Decoded(b) == [ok |-> TRUE, panic |-> FALSE, bytes |-> b]

\* the stream is read only behind the two magic bytes 0x1f 0x8b
tryGzipDecompress(b, gz) ==
    IF Len(b) < 2 \/ b[1] # 31 \/ b[2] # 139 THEN Failed
    ELSE CASE gz.kind = "error" -> Failed
           [] gz.kind = "panic" -> Panicked
           [] OTHER -> Decoded(gz.bytes)

\* the first encoding that decodes s settles the result: the decompressed
\* bytes if they decompress, the decoded bytes themselves if not
afterDecode(decoded, unzipped) ==
    IF unzipped.ok \/ unzipped.panic THEN unzipped ELSE Decoded(decoded)

RECURSIVE tryEncodings(_, _, _)
tryEncodings(encodings, s, gz) ==
    IF encodings = <<>> THEN Failed
    ELSE IF DecodeString(Head(encodings), s).ok
    THEN afterDecode(DecodeString(Head(encodings), s).bytes,
                     tryGzipDecompress(DecodeString(Head(encodings), s).bytes, gz))
    ELSE tryEncodings(Tail(encodings), s, gz)

tryBase64Variants(s, gz) ==
    tryEncodings(<<StdEncoding, URLEncoding, RawStdEncoding, RawURLEncoding>>, s, gz)

\* the value of a hexadecimal digit, -1 for any other character
hexDigits == <<"0", "1", "2", "3", "4", "5", "6", "7", "8", "9",
               "a", "b", "c", "d", "e", "f">>

hexUpper == <<"A", "B", "C", "D", "E", "F">>

fromHexChar(c) ==
    CASE \E i \in DOMAIN hexDigits : hexDigits[i] = c ->
            (CHOOSE i \in DOMAIN hexDigits : hexDigits[i] = c) - 1
      [] \E i \in DOMAIN hexUpper : hexUpper[i] = c ->
            (CHOOSE i \in DOMAIN hexUpper : hexUpper[i] = c) + 9
      [] OTHER -> -1

\* hex.DecodeString of an even number of hexadecimal digits
hexBytes(s) ==
    [i \in 1..(Len(s) \div 2) |-> 16 * fromHexChar(s[2 * i - 1]) + fromHexChar(s[2 * i])]

tryHexDecode(s) ==
    IF Len(s) % 2 # 0 THEN Failed
    ELSE IF \E i \in DOMAIN s : fromHexChar(s[i]) < 0 THEN Failed
    ELSE Decoded(hexBytes(s))

\* unicode/utf8: the number of bytes of the encoding that b begins with
\* at index i, 0 if none does: the first byte gives the length and the
\* range of the second, the others are continuation bytes 0x80..0xBF
continuation(b, i) == i <= Len(b) /\ b[i] \in 128..191

secondIn(b, i, lo, hi) == i + 1 <= Len(b) /\ b[i + 1] \in lo..hi

runeLen(b, i) ==
    CASE b[i] < 128 -> 1
      [] b[i] \in 194..223 -> IF secondIn(b, i, 128, 191) THEN 2 ELSE 0
      [] b[i] = 224 ->
            IF secondIn(b, i, 160, 191) /\ continuation(b, i + 2) THEN 3 ELSE 0
      [] b[i] \in (225..236) \cup (238..239) ->
            IF secondIn(b, i, 128, 191) /\ continuation(b, i + 2) THEN 3 ELSE 0
      [] b[i] = 237 ->
            IF secondIn(b, i, 128, 159) /\ continuation(b, i + 2) THEN 3 ELSE 0
      [] b[i] = 240 ->
            IF /\ secondIn(b, i, 144, 191)
               /\ continuation(b, i + 2) /\ continuation(b, i + 3)
            THEN 4 ELSE 0
      [] b[i] \in 241..243 ->
            IF /\ secondIn(b, i, 128, 191)
               /\ continuation(b, i + 2) /\ continuation(b, i + 3)
            THEN 4 ELSE 0
      [] b[i] = 244 ->
            IF /\ secondIn(b, i, 128, 143)
               /\ continuation(b, i + 2) /\ continuation(b, i + 3)
            THEN 4 ELSE 0
      [] OTHER -> 0

RECURSIVE validFrom(_, _)
validFrom(b, i) ==
    IF i > Len(b) THEN TRUE
    ELSE IF runeLen(b, i) = 0 THEN FALSE
    ELSE validFrom(b, i + runeLen(b, i))

utf8Valid(b) == validFrom(b, 1)

\* faulty variant: the bytes are not checked for being UTF-8
validateDecodedAnyBytes(b) ==
    IF \E i \in DOMAIN b : b[i] = 0 THEN Failed
    ELSE Decoded(b)

\* no NUL byte, and valid UTF-8
validateDecoded(b) ==
    IF \E i \in DOMAIN b : b[i] = 0 THEN Failed
    ELSE IF ~utf8Valid(b) THEN Failed
    ELSE Decoded(b)

\* HasPrefix(s, "(")
startsWithParen(s) == s # <<>> /\ s[1] = "("

\* the hex stage, after base64 has failed or its bytes were refused
userdataFromHex(hexed) ==
    IF hexed.ok /\ validateDecoded(hexed.bytes).ok
    THEN validateDecoded(hexed.bytes)
    ELSE Failed

\* the body of TryDecodeUserdata: base64 on the stripped value first,
\* then hex on the value as it is
userdataStages(s, based) ==
    IF based.panic THEN Panicked
    ELSE IF based.ok /\ validateDecoded(based.bytes).ok
    THEN validateDecoded(based.bytes)
    ELSE userdataFromHex(tryHexDecode(s))

userdataBody(s, gz) ==
    IF s = <<>> \/ s = <<"n", "u", "l", "l">> \/ startsWithParen(s) THEN Failed
    ELSE userdataStages(s, tryBase64Variants(stripBase64Whitespace(s), gz))

\* the deferred function turns a panic into ("", false)
recovered(ret) ==
    IF ret.panic THEN [result |-> <<>>, ok |-> FALSE, panic |-> FALSE]
    ELSE [result |-> ret.bytes, ok |-> ret.ok, panic |-> FALSE]

\* faulty variant: without the deferred recover
TryDecodeUserdataNoRecover(s, gz) ==
    [result |-> userdataBody(s, gz).bytes, ok |-> userdataBody(s, gz).ok,
     panic |-> userdataBody(s, gz).panic]

TryDecodeUserdata(s, gz) == recovered(userdataBody(s, gz))

\* Inputs: every value of up to MaxUserdataLen characters, and the values
\* of the tests
MaxUserdataLen == 4

UserdataChars == {"A", "Q", "4", "/", "_", "=", "(", " "}

UserdataTests ==
    {<<"a", "G", "V", "s", "b", "G", "8", "=">>,
     <<"a", "G", "V", "s", "\n", "b", "G", "8", "=">>,
     <<"a", "G", "V", "s", " ", "b", "G", "8", "=">>,
     <<"P", "j", "4", "-">>,
     <<"a", "G", "V", "s", "b", "G", "8">>,
     <<"6", "8", "6", "5", "6", "c", "6", "c", "6", "f">>,
     <<"6", "8", "6", "5", "6", "c", "6", "c", "6">>,
     <<"#", "!", "/", "b", "i", "n", "/", "b", "a", "s", "h">>,
     <<"n", "u", "l", "l">>,
     <<"(", "s", "e", "n", "s", "i", "t", "i", "v", "e", " ", "v", "a", "l", "u", "e", ")">>,
     <<"H", "4", "s", "=">>,
     <<"H", "4", "s">>,
     <<"H", "4", "s", "I", "A", "A", "A", "A">>,
     <<"0", "0">>}

UserdataInputs ==
    UNION {[1..n -> UserdataChars] : n \in 0..MaxUserdataLen} \cup UserdataTests

\* the gzip reader is reached with the bytes of the first encoding that
\* decodes the stripped value
gzipReached(s) ==
    /\ ~(s = <<>> \/ s = <<"n", "u", "l", "l">> \/ startsWithParen(s))
    /\ tryBase64Variants(stripBase64Whitespace(s), [kind |-> "panic"]).panic

UserdataInit ==
    /\ ViewerIdle
    /\ NoViewer
    /\ \E s \in UserdataInputs, gz \in GzipOutcomes :
          /\ gz.kind = "error" \/ gzipReached(s)
          /\ call = [fn |-> "TryDecodeUserdata", done |-> FALSE, s |-> s, gz |-> gz]

CallTryDecodeUserdata ==
    /\ call.fn = "TryDecodeUserdata"
    /\ Return(TryDecodeUserdata(call.s, call.gz))

UserdataNext == CallTryDecodeUserdata

SpecUserdata == UserdataInit /\ [][UserdataNext]_vars

----------------------------------------------------------------------------
(* The history picker: picker.go *)

\* a history.Entry, its timestamp as the picker formats it
Entry(project, command, entryStatus, path) ==
    [Project |-> project, Command |-> command, Status |-> entryStatus,
     Timestamp |-> <<"2", " ", "1">>, Filename |-> <<"f">>, WorkingDir |-> <<"w">>,
     Path |-> path]

NewPickerModel(entries) ==
    [allEntries |-> entries, filtered |-> entries, cursor |-> 0, selected |-> <<>>,
     quitting |-> FALSE, height |-> 0, width |-> 0,
     searching |-> FALSE, searchQuery |-> <<>>]

\* filterEntries: the text of an entry that the terms are looked up in
entrySearchable(entry) ==
    ToLower(entry.Project \o <<" ">> \o entry.Command \o <<" ">> \o entry.Status
            \o <<" ">> \o entry.Timestamp \o <<" ">> \o entry.Filename
            \o <<" ">> \o entry.WorkingDir)

\* filterEntries: the entries that contain every term
entriesMatching(entries, terms) ==
    SelectSeq(entries,
              LAMBDA entry : \A k \in DOMAIN terms :
                                 Contains(entrySearchable(entry), terms[k]))

\* filterEntries: the results are stored and a cursor at or past their
\* end is reset; a cursor before their start is left alone
storeFiltered(pm, results) ==
    [pm EXCEPT !.filtered = results,
               !.cursor = IF pm.cursor >= Len(results)
                          THEN (IF Len(results) > 0 THEN Len(results) - 1 ELSE 0)
                          ELSE pm.cursor]

\* without a query, or without a term in it, the two early returns leave
\* the cursor as it is
filterEntries(pm) ==
    IF pm.searchQuery = <<>> THEN [pm EXCEPT !.filtered = pm.allEntries]
    ELSE IF Fields(ToLower(pm.searchQuery)) = <<>> THEN [pm EXCEPT !.filtered = pm.allEntries]
    ELSE storeFiltered(pm, entriesMatching(pm.allEntries, Fields(ToLower(pm.searchQuery))))

\* what a key handler of the picker returns
Handled(pm, cmd) == [m |-> pm, cmd |-> cmd, handled |-> TRUE]
Unhandled(pm) == [m |-> pm, cmd |-> "none", handled |-> FALSE]

\* the characters that arrive as tea.KeyRunes
PickerRunes == {"a", "z", "q"}

\* PickerModel.handleSearchKey
handlePickerSearchKey(pm, key) ==
    CASE key = "esc" ->
            Handled(filterEntries([pm EXCEPT !.searching = FALSE, !.searchQuery = <<>>]), "none")
      [] key = "enter" -> Handled([pm EXCEPT !.searching = FALSE], "none")
      [] key = "backspace" ->
            IF Len(pm.searchQuery) > 0
            THEN Handled(filterEntries([pm EXCEPT !.searchQuery = Front(pm.searchQuery)]), "none")
            ELSE Handled(pm, "none")
      [] key \in PickerRunes ->
            Handled(filterEntries([pm EXCEPT !.searchQuery = Append(pm.searchQuery, key)]), "none")
      [] key = " " ->
            Handled(filterEntries([pm EXCEPT !.searchQuery = Append(pm.searchQuery, " ")]), "none")
      [] OTHER -> Unhandled(pm)

visibleRows(pm) == IF pm.height - 8 < 5 THEN 5 ELSE pm.height - 8

\* half := m.visibleRows() / 2, at least 1
halfPage(pm) == IF visibleRows(pm) \div 2 < 1 THEN 1 ELSE visibleRows(pm) \div 2

\* Enter and Space: m.filtered[m.cursor] panics when the cursor is no
\* index of the list
pickerSelect(pm) ==
    IF Len(pm.filtered) > 0
    THEN (IF pm.cursor >= 0 /\ pm.cursor < Len(pm.filtered)
          THEN Handled([pm EXCEPT !.selected = At(pm.filtered, pm.cursor).Path,
                                  !.quitting = TRUE], "quit")
          ELSE Handled(pm, "panic"))
    ELSE Handled([pm EXCEPT !.quitting = TRUE], "quit")

\* 'd': the cursor goes down half a page and is set to len(filtered) - 1
\* when it is at or past the end, which is -1 for an empty list
pickerHalfPageDown(pm, half) ==
    [pm EXCEPT !.cursor = IF pm.cursor + half >= Len(pm.filtered)
                          THEN Len(pm.filtered) - 1
                          ELSE pm.cursor + half]

pickerHalfPageUp(pm, half) ==
    [pm EXCEPT !.cursor = IF pm.cursor - half < 0 THEN 0 ELSE pm.cursor - half]

handlePickerKey(pm, key) ==
    CASE key = "/" -> Handled([pm EXCEPT !.searching = TRUE], "none")
      [] key \in {"q", "ctrl+c"} -> Handled([pm EXCEPT !.quitting = TRUE], "quit")
      [] key = "esc" ->
            IF pm.searchQuery # <<>>
            THEN Handled(filterEntries([pm EXCEPT !.searchQuery = <<>>]), "none")
            ELSE Handled([pm EXCEPT !.quitting = TRUE], "quit")
      [] key \in {"enter", " "} -> pickerSelect(pm)
      [] key \in {"j", "down"} ->
            IF pm.cursor < Len(pm.filtered) - 1
            THEN Handled([pm EXCEPT !.cursor = pm.cursor + 1], "none")
            ELSE Handled(pm, "none")
      [] key \in {"k", "up"} ->
            IF pm.cursor > 0
            THEN Handled([pm EXCEPT !.cursor = pm.cursor - 1], "none")
            ELSE Handled(pm, "none")
      [] key = "d" -> Handled(pickerHalfPageDown(pm, halfPage(pm)), "none")
      [] key = "u" -> Handled(pickerHalfPageUp(pm, halfPage(pm)), "none")
      [] key = "g" -> Handled([pm EXCEPT !.cursor = 0], "none")
      [] key = "G" ->
            IF Len(pm.filtered) > 0
            THEN Handled([pm EXCEPT !.cursor = Len(pm.filtered) - 1], "none")
            ELSE Handled(pm, "none")
      [] OTHER -> Unhandled(pm)

\* PickerModel.Update on a tea.KeyMsg: the handlers work on the copy m of
\* the receiver, which is also what an unhandled key returns
PickerUpdateKey(pm, key) ==
    IF pm.searching THEN Ret(handlePickerSearchKey(pm, key).m, handlePickerSearchKey(pm, key).cmd)
    ELSE Ret(handlePickerKey(pm, key).m, handlePickerKey(pm, key).cmd)

\* PickerModel.Update on a tea.WindowSizeMsg
PickerUpdateWindowSize(pm, h) == [pm EXCEPT !.height = h, !.width = 80]

\* Sessions of the picker: at most MaxPickerEvents messages, queries of at
\* most MaxPickerQueryLen characters
MaxPickerEvents == 6

MaxPickerQueryLen == 2

PickerHistories ==
    {<<>>,
     <<Entry(<<"a">>, <<"p">>, <<"s">>, <<"1">>)>>,
     <<Entry(<<"a">>, <<"p">>, <<"s">>, <<"1">>),
       Entry(<<"A", "q">>, <<"a">>, <<"d">>, <<"2">>),
       Entry(<<"q">>, <<"p">>, <<"s">>, <<"3">>)>>}

PickerKeys ==
    {"/", "q", "ctrl+c", "esc", "enter", " ", "j", "down", "k", "up", "d", "u",
     "g", "G", "x"}

PickerSearchKeys == {"esc", "enter", "backspace", "a", "z", "q", " ", "tab"}

PickerHeights == {10, 24}

PickerInit ==
    /\ ViewerIdle
    /\ NoViewer
    /\ \E entries \in PickerHistories :
          call = [fn |-> "RunPicker", done |-> FALSE, m |-> NewPickerModel(entries),
                  status |-> "running", nEvents |-> 0]

PickerRunning ==
    call.fn = "RunPicker" /\ call.status = "running" /\ call.nEvents < MaxPickerEvents

\* the program takes the model Update returns and ends on tea.Quit or on
\* a panic
PickerStep(pm, cmd) ==
    /\ call' = [call EXCEPT !.m = pm,
                            !.status = IF cmd \in {"quit", "panic"} THEN cmd ELSE "running",
                            !.done = cmd \in {"quit", "panic"},
                            !.nEvents = call.nEvents + 1]
    /\ UNCHANGED <<plan, m, status, updatePending, nEvents, last, prevArm, mon>>

PickerKeyMsg ==
    /\ PickerRunning /\ ~call.m.searching
    /\ \E key \in PickerKeys :
          PickerStep(PickerUpdateKey(call.m, key).m, PickerUpdateKey(call.m, key).cmd)

PickerSearchKeyMsg ==
    /\ PickerRunning /\ call.m.searching
    /\ \E key \in PickerSearchKeys :
          /\ key \in PickerRunes \cup {" "} => Len(call.m.searchQuery) < MaxPickerQueryLen
          /\ PickerStep(PickerUpdateKey(call.m, key).m, PickerUpdateKey(call.m, key).cmd)

PickerWindowSizeMsg ==
    /\ PickerRunning
    /\ \E h \in PickerHeights : PickerStep(PickerUpdateWindowSize(call.m, h), "none")

PickerNext ==
    \/ PickerKeyMsg
    \/ PickerSearchKeyMsg
    \/ PickerWindowSizeMsg

SpecPicker == PickerInit /\ [][PickerNext]_vars

----------------------------------------------------------------------------
(* Claims *)

\* C1: shouldApply is true only in an apply-capable model whose last two
\* key events were 'a' in Normal mode with the flag unarmed and then 'a' or
\* 'y', the last message being that key; a view-only model never arms or
\* applies; and 'y' in Normal mode without an armed flag neither applies,
\* arms nor quits (it changes nothing but the pending 'g').
ApplyOnlyAfterConfirm ==
    /\ m.shouldApply =>
          /\ m.applyMode
          /\ last.kind = "key" /\ last.key \in {"a", "y"}
          /\ prevArm
          /\ status = "quit"
    /\ ~m.applyMode => ~m.confirmApply /\ ~m.shouldApply
    /\ (status = "running" /\ Normal(m)) =>
          UpdateKey(m, "y", plan) = Ret([m EXCEPT !.pendingG = FALSE], "none")

\* C1 witness: apply was confirmed with 'y' after the arming 'a'
ApplyConfirmedWithY == m.shouldApply /\ last.key = "y" /\ prevArm

\* the actions the status filter lets through
EnabledActions(md) == {a \in Action : MapGet(md.statusFilters, a)}

AllResources == 0..(Len(plan) - 1)

\* the list on screen: no picker is open
ListShown(md) == ~md.filtering /\ ~md.sorting

\* C2: with no action enabled in the status filter and no search query, the
\* list on screen contains every resource of the plan.
NoEnabledActionShowsAll ==
    (ListShown(m) /\ EnabledActions(m) = {} /\ m.searchQuery = <<>>) =>
        Range(displayedResourceIndices(m, plan)) = AllResources

\* subsequence containment: q can be obtained from t by deleting characters
RECURSIVE IsSubseq(_, _)
IsSubseq(q, t) ==
    IF q = <<>> THEN TRUE
    ELSE IF t = <<>> THEN FALSE
    ELSE IF Head(q) = Head(t) THEN IsSubseq(Tail(q), Tail(t))
    ELSE IsSubseq(q, Tail(t))

\* every term of the query is contained, ignoring case, in the text of r
TermsMatch(query, r) ==
    \A t \in Range(Fields(query)) :
        IsSubseq(ToLower(t), ToLower(r.Address \o <<" ">> \o r.Type \o <<" ">> \o r.Name))

\* the resource indices the filter model lets through, in plan order
WantFiltered(md) ==
    SelectSeq(Iota(Len(plan)),
              LAMBDA i : EnabledActions(md) = {} \/ At(plan, i).Action \in EnabledActions(md))

\* the sort key of the resource at index i, compared componentwise
KeyLeq(order, i, j) ==
    LET ri == At(plan, i)
        rj == At(plan, j)
        leq(s, t) == s = t \/ StrLess(s, t)
    IN  CASE order = SortDefault -> i <= j
          [] order = SortByAction ->
                \/ actionOrder(ri.Action) < actionOrder(rj.Action)
                \/ actionOrder(ri.Action) = actionOrder(rj.Action) /\ leq(ri.Address, rj.Address)
          [] order = SortByAddress -> leq(ri.Address, rj.Address)
          [] order = SortByType ->
                \/ StrLess(ri.Type, rj.Type)
                \/ ri.Type = rj.Type /\ leq(ri.Address, rj.Address)

\* s lists each index of want once, in non-decreasing order of the sort key
IsSortedListOf(s, want, order) ==
    /\ Len(s) = Len(want)
    /\ Range(s) = Range(want)
    /\ \A i \in 1..(Len(s) - 1) : KeyLeq(order, s[i], s[i + 1])

\* C3: with no picker open, the filtered and sorted list is the enabled
\* resources in the order of the sort mode; searchMatches holds exactly the
\* positions in it of the entries every query term matches (all of them
\* when the query has no term); and the displayed list is that list
\* restricted to those positions.
DisplayedIsSortFilterSearch ==
    ListShown(m) =>
        LET sorted == sortedResources(m, plan)
            hits == SelectSeq(Iota(Len(sorted)),
                              LAMBDA d : TermsMatch(m.searchQuery, At(plan, At(sorted, d))))
            displayed == displayedResourceIndices(m, plan)
        IN  /\ IsSortedListOf(sorted, WantFiltered(m), m.sortOrder)
            /\ Fields(m.searchQuery) # <<>> => m.searchMatches = hits
            /\ \A i \in DOMAIN m.searchMatches :
                  m.searchMatches[i] >= 0 /\ m.searchMatches[i] < Len(sorted)
            /\ displayed = [i \in DOMAIN hits |-> At(sorted, hits[i])]
            /\ (EnabledActions(m) = {} /\ m.searchQuery = <<>>) =>
                  Len(displayed) = Len(plan) /\ Range(displayed) = AllResources
            /\ (EnabledActions(m) = {ActionCreate} /\ m.sortOrder = SortDefault
                /\ m.searchQuery = <<>>) =>
                  displayed = SelectSeq(Iota(Len(plan)),
                                        LAMBDA i : At(plan, i).Action = ActionCreate)

\* C4: at most one of the mode flags is set.
OneModeAtATime ==
    Cardinality({f \in {"searching", "filtering", "sorting", "confirmApply"} : m[f]}) <= 1

\* C4 witness: a picker was opened by the key pressed right after the
\* arming 'a'
PickerOpenedWhileArmed ==
    prevArm /\ m.applyMode /\ last.kind = "key" /\ (m.filtering \/ m.sorting \/ m.searching)

\* the cursor is a position of the displayed list, or 0 when it is empty
CursorInList(md) ==
    LET n == Len(displayedResourceIndices(md, plan))
    IN  IF n = 0 THEN md.cursor = 0 ELSE md.cursor >= 0 /\ md.cursor < n

\* C5: whenever the list is on screen the cursor is a valid position in it,
\* also after a filter change made while a search is active.
CursorAlwaysValid == ListShown(m) => CursorInList(m)

\* a step that processes a key event
KeyEvent == last'.kind = "key"

\* C6: one Escape key event leaves the viewer in Normal mode; pressed in
\* the search input it empties the query and the matches, in the filter
\* picker it closes the picker and empties the filter, in the sort picker
\* it closes the picker and keeps the sort order.
EscapeReturnsToNormal ==
    [][(KeyEvent /\ last'.key = "esc") =>
          /\ Normal(m')
          /\ ModeOf(m) = "search" =>
                m'.searchQuery = <<>> /\ m'.searchMatches = <<>> /\ m'.searchInput = <<>>
          /\ ModeOf(m) = "filter" =>
                MapLen(m'.statusFilters) = 0 /\ EnabledActions(m') = {}
          /\ ModeOf(m) = "sort" => m'.sortOrder = m.sortOrder]_vars

\* C6 witness: Escape closed the sort picker whose cursor was on another
\* order than the current one
EscapeLeftSortPicker ==
    /\ last.kind = "key" /\ last.key = "esc" /\ last.mode = "sort"
    /\ At(sortOptions, m.sortCursor) # m.sortOrder

\* C7: a key other than 'a' and 'y' processed while the flag is armed
\* disarms it, and while the program runs the flag is armed only if the
\* last key event was the arming 'a'.
ConfirmIsOneShot ==
    [][/\ (KeyEvent /\ m.confirmApply /\ last'.key \notin {"a", "y"}) => ~m'.confirmApply
       /\ (status' = "running" /\ m'.confirmApply) => Arming(last')]_vars

\* C7 witness: the key after the arming 'a' was neither 'a' nor 'y'
DisarmedByOtherKey ==
    prevArm /\ m.applyMode /\ last.kind = "key" /\ last.key \notin {"a", "y"}
    /\ ~m.confirmApply

\* C8: once a filter applied during a search has been cleared, searchMatches
\* and the displayed list are what they were before the filter was applied,
\* and every match is a position of the filtered and sorted list.
FilterClearRestoresMatches ==
    mon.phase = "cleared" =>
        /\ m.searchMatches = mon.matches
        /\ displayedResourceIndices(m, plan) = mon.displayed
        /\ \A i \in DOMAIN m.searchMatches :
              m.searchMatches[i] >= 0
              /\ m.searchMatches[i] < Len(sortedResources(m, plan))

\* C8 witness: the filter had changed the displayed list, and Escape in
\* Normal mode cleared it
FilterClearedByEscape ==
    /\ mon.phase = "cleared" /\ last.key = "esc"
    /\ mon.during # mon.displayed /\ mon.matches # <<>>

\* C9: a key handled by the filter picker, the sort picker or the search
\* input, and Escape in Normal mode, leave the expansion of every resource
\* as it was.
ExpansionUntouchedByFilterSortSearch ==
    [][(KeyEvent /\ (ModeOf(m) \in {"filter", "sort", "search"} \/ last'.key = "esc")) =>
          m'.expanded = m.expanded]_vars

\* C9 witness: a filter was applied that hides an expanded resource
HiddenResourceStaysExpanded ==
    /\ last.kind = "key" /\ last.mode = "filter" /\ ListShown(m)
    /\ \E i \in AllResources :
          m.expanded[i] /\ i \notin Range(displayedResourceIndices(m, plan))

\* C10: a key other than Escape processed while the filter picker, the
\* sort picker or the search input is open is handled by that mode alone:
\* it does not quit, it leaves confirmApply, shouldApply and pendingG as
\* they were, and it opens no other mode (the viewer stays in the mode or
\* returns to Normal).
ModalKeysStayInMode ==
    [][(KeyEvent /\ ModeOf(m) \in {"filter", "sort", "search"} /\ last'.key # "esc") =>
          /\ status' # "quit"
          /\ m'.confirmApply = m.confirmApply
          /\ m'.shouldApply = m.shouldApply
          /\ m'.pendingG = m.pendingG
          /\ ModeOf(m') \in {ModeOf(m), "normal"}]_vars

\* C10 witness: 'q' was typed into the search input and the program runs
QuitKeyTypedIntoSearch ==
    status = "running" /\ m.searching /\ m.searchInput # <<>> /\ Last(m.searchInput) = "q"

\* C11: the sequence is pending exactly after a 'g' pressed outside the
\* pickers and the search input while it was not pending; such a 'g'
\* pressed while it is pending puts the cursor on display position 0 and
\* the viewport at the top, and pressed while it is not pending leaves the
\* cursor where it is.  Every other key, 'G' and the keys of a picker or
\* the search input included, leaves the sequence not pending.
DoubleGJumpsToTop ==
    [][KeyEvent =>
          /\ m'.pendingG <=>
                (last'.key = "g" /\ last'.mode \in {"normal", "confirm"} /\ ~m.pendingG)
          /\ (last'.key = "g" /\ last'.mode \in {"normal", "confirm"}) =>
                IF m.pendingG
                THEN m'.cursor = 0 /\ m'.viewport.YOffset = 0
                ELSE m'.cursor = m.cursor]_vars

\* C11 witness: the second 'g' of a pair was processed on a plan with
\* resources, in a terminal that has reported its size
SecondGProcessed ==
    /\ last.kind = "key" /\ last.key = "g" /\ last.mode = "normal"
    /\ ~m.pendingG /\ m.ready /\ Len(plan) > 0 /\ m.cursor = 0

\* C12: when the search query has no term (it is empty or only blanks) the
\* displayed list is the whole filtered and sorted list.
QueryWithoutTermHidesNothing ==
    (ListShown(m) /\ Fields(ToLower(m.searchQuery)) = <<>>) =>
        displayedResourceIndices(m, plan) = sortedResources(m, plan)

\* the rank of the by-action order: create < read < update < replace <
\* delete-create < create-delete < destroy < no-op
SeverityRank(a) ==
    CHOOSE i \in 1..8 :
        <<ActionCreate, ActionRead, ActionUpdate, ActionReplace, ActionDeleteCreate,
          ActionCreateDelete, ActionDestroy, ActionNoOp>>[i] = a

\* s <= t in the lexicographic order of strings
StrLeq(s, t) == s = t \/ StrLess(s, t)

\* the resources at indices i and j of the plan are in the order of the
\* sort mode
InSortOrder(order, i, j) ==
    LET ri == At(plan, i)
        rj == At(plan, j)
    IN  CASE order = SortByAction ->
                \/ SeverityRank(ri.Action) < SeverityRank(rj.Action)
                \/ ri.Action = rj.Action /\ StrLeq(ri.Address, rj.Address)
          [] order = SortByAddress -> StrLeq(ri.Address, rj.Address)
          [] order = SortByType ->
                \/ ri.Type # rj.Type /\ StrLess(ri.Type, rj.Type)
                \/ ri.Type = rj.Type /\ StrLeq(ri.Address, rj.Address)
          [] OTHER -> i < j

\* C13: the filtered and sorted list holds each index of the filtered list
\* once and is in non-decreasing order of the sort mode's key; under the
\* default mode it is the filtered list itself.
SortedIsOrderedPermutation ==
    (call.fn = "sortedResources" /\ call.done) =>
        /\ Len(call.out) = Len(filteredResources(m, plan))
        /\ Range(call.out) = Range(filteredResources(m, plan))
        /\ \A i \in 1..(Len(call.out) - 1) :
              InSortOrder(m.sortOrder, call.out[i], call.out[i + 1])
        /\ m.sortOrder = SortDefault => call.out = filteredResources(m, plan)

\* C13 witness: three resources that the plan lists in another order than
\* the sorted list
SortedMovedResources ==
    /\ call.fn = "sortedResources" /\ call.done
    /\ Len(call.out) = 3 /\ call.out # filteredResources(m, plan)
    /\ m.sortOrder = SortByAction

\* C14: fuzzyMatch(text, query) is true exactly when the lower-cased
\* query is a subsequence of the characters of the lower-cased text.
FuzzyMatchIsSubsequence ==
    (call.fn = "fuzzyMatch" /\ call.done) =>
        (call.out <=> IsSubseq(ToLower(call.query), ToLower(call.text)))

\* the positions of the filtered and sorted list of md whose resource every
\* term of the query matches
ResolvedMatches(md) ==
    SelectSeq(Iota(Len(sortedResources(md, plan))),
              LAMBDA d : TermsMatch(md.searchQuery, At(plan, At(sortedResources(md, plan), d))))

\* C15: Escape in Normal mode with a status enabled and a query set clears
\* the filter only: the query is kept and its matches are resolved again
\* on the unfiltered list.  With no status enabled, Escape clears the
\* query and the matches and leaves sort order and expansion as they were.
EscapeClearsFilterThenSearch ==
    [][(KeyEvent /\ last'.key = "esc" /\ last'.mode = "normal") =>
          /\ (EnabledActions(m) # {} /\ m.searchQuery # <<>>) =>
                /\ EnabledActions(m') = {}
                /\ m'.searchQuery = m.searchQuery
                /\ Fields(m.searchQuery) # <<>> => m'.searchMatches = ResolvedMatches(m')
          /\ EnabledActions(m) = {} =>
                /\ m'.searchQuery = <<>> /\ m'.searchMatches = <<>>
                /\ m'.sortOrder = m.sortOrder /\ m'.expanded = m.expanded]_vars

\* the fields of the model the update notice must not influence: all but
\* the notice itself and the viewport with its layout
ViewerFields ==
    {"cursor", "expanded", "statusFilters", "sortOrder", "searching", "searchInput",
     "searchQuery", "searchMatches", "currentMatch", "filtering", "filterCursor",
     "sorting", "sortCursor", "confirmApply", "shouldApply", "applyMode", "pendingG"}

WithoutNotice(md) == [f \in ViewerFields |-> md[f]]

\* the model with the same ViewerFields before any size or update message
BeforeLayout(md) ==
    [md EXCEPT !.viewport = ZeroViewport, !.ready = FALSE, !.height = 0,
               !.updateAvailable = "", !.resourceLineStarts = <<>>,
               !.contentLineCount = 0]

\* what a handler's result says about the ViewerFields and the command
Outcome(r) == [fields |-> WithoutNotice(r.m), cmd |-> r.cmd]

\* C16: at every state reached by fewer than MaxEvents - 1 messages: what
\* a key does to the ViewerFields, and the command it returns, depend on
\* the ViewerFields alone, so they are the same whether or not an
\* UpdateAvailableMsg was delivered at any earlier point; resize and mouse
\* messages leave the ViewerFields alone; and the UpdateAvailableMsg itself
\* changes the update notice and the viewport height only.
UpdateDoesNotInterfere ==
    /\ (status = "running" /\ nEvents < MaxEvents - 1) =>
          /\ \A key \in Keys :
                Outcome(UpdateKey(m, key, plan)) = Outcome(UpdateKey(BeforeLayout(m), key, plan))
          /\ \A h \in WinHeights :
                WithoutNotice(UpdateWindowSize(m, h, plan)) = WithoutNotice(m)
          /\ \A dir \in {"up", "down"} :
                WithoutNotice(UpdateMouse(m, dir)) = WithoutNotice(m)
    /\ UpdateAvailable(m, "v")
          = [m EXCEPT !.updateAvailable = "v",
                      !.viewport.Height = IF m.ready /\ m.height > 0
                                          THEN m.height - 8 ELSE m.viewport.Height]

\* an update notice arrived between the two keys of "gg", in a sized window
UpdateDeliveredMidGesture ==
    /\ last.kind = "update" /\ m.updateAvailable = "v"
    /\ m.pendingG /\ m.ready /\ m.height > 0
    /\ nEvents < MaxEvents - 1

\* the header line of the resource under the cursor is one of the lines
\* the viewport shows
CursorLineShown(md) ==
    /\ md.cursor >= 0 /\ md.cursor < Len(md.resourceLineStarts)
    /\ At(md.resourceLineStarts, md.cursor) >= md.viewport.YOffset
    /\ At(md.resourceLineStarts, md.cursor) <= md.viewport.YOffset + md.viewport.Height - 1

\* C17: after a key event that changed the cursor position, in a sized
\* window listing at least one resource, the header line of the selected
\* resource lies within [YOffset, YOffset + Height - 1].
CursorMoveKeepsHeaderVisible ==
    [][(KeyEvent /\ m'.cursor # m.cursor /\ m'.ready /\ m'.resourceLineStarts # <<>>)
          => CursorLineShown(m')]_vars

\* the line after the block of the resource under the cursor
BlockEnd(md) ==
    IF md.cursor + 1 < Len(md.resourceLineStarts)
    THEN At(md.resourceLineStarts, md.cursor + 1)
    ELSE md.contentLineCount

\* rendered: the model after the key's change of the expansion set, drawn
\* but not yet scrolled; after: the model the key returns; shown: the
\* resource displayed under the cursor
ScrolledToBlock(rendered, after, shown) ==
    (/\ shown >= 0 /\ after.expanded[shown]
     /\ after.cursor < Len(after.resourceLineStarts)
     /\ BlockEnd(rendered) > rendered.viewport.YOffset + rendered.viewport.Height - 1)
    => after.viewport.YOffset = At(after.resourceLineStarts, after.cursor)

ExpandScrolls(before, after) ==
    ScrolledToBlock(updateViewportContent([after EXCEPT !.viewport = before.viewport], plan),
                    after, cursorResource(after, plan))

ExpandKeys == {"enter", " ", "l", "right"}

\* C18: when Enter, Space, l or Right leaves the resource displayed under
\* the cursor expanded and its block ends beyond the last visible line, the
\* viewport offset becomes the first line of the block; the resource is the
\* one displayed at the cursor, also while a search narrows the list.
ExpandScrollsToDisplayedBlock ==
    (status = "running" /\ ModeOf(m) \in {"normal", "confirm"} /\ m.ready)
    => \A key \in ExpandKeys : ExpandScrolls(m, UpdateKey(m, key, plan).m)

\* the length of a longest common subsequence, by its recursive definition
RECURSIVE LcsLength(_, _)
LcsLength(s, t) ==
    IF s = <<>> \/ t = <<>> THEN 0
    ELSE IF Head(s) = Head(t) THEN 1 + LcsLength(Tail(s), Tail(t))
    ELSE Max(LcsLength(Tail(s), t), LcsLength(s, Tail(t)))

\* the entries of a diff with an operation in ops, and their texts
EntriesOf(diff, ops) == SelectSeq(diff, LAMBDA d : d.Op \in ops)

TextsOf(diff, ops) == [k \in 1..Len(EntriesOf(diff, ops)) |-> EntriesOf(diff, ops)[k].Text]

CountOf(diff, op) == Len(EntriesOf(diff, {op}))

\* the part of the two texts between their common prefix and the common
\* suffix that follows it
CoreLength(oldLines, newLines, pre) ==
    Len(oldLines) + Len(newLines) - 2 * pre
        - 2 * suffixLen(oldLines, newLines, Min(Len(oldLines), Len(newLines)) - pre, 0)

\* ComputeDiff takes the exact path: the texts together, or what is left of
\* them without common prefix and suffix, have at most maxLCSLines lines
ExactPath(oldLines, newLines) ==
    \/ Len(oldLines) + Len(newLines) <= maxLCSLines
    \/ CoreLength(oldLines, newLines,
                  prefixLen(oldLines, newLines, Min(Len(oldLines), Len(newLines)), 0))
           <= maxLCSLines

\* diff is an edit script from oldLines to newLines with as many equal
\* entries as a longest common subsequence has lines
MinimalScript(diff, oldLines, newLines, n) ==
    /\ TextsOf(diff, {DiffEqual, DiffDelete}) = oldLines
    /\ TextsOf(diff, {DiffEqual, DiffInsert}) = newLines
    /\ CountOf(diff, DiffEqual) = n
    /\ CountOf(diff, DiffDelete) = Len(oldLines) - n
    /\ CountOf(diff, DiffInsert) = Len(newLines) - n

\* C19: on the exact path the result of ComputeDiff is a minimal edit
\* script: its equal entries number the length of a longest common
\* subsequence of the two texts, its deletes len(old) minus that, its
\* inserts len(new) minus that; [a,b,c] against [a,x,c] gives equal a,
\* delete b, insert x, equal c.
ExactDiffIsMinimal ==
    (call.fn = "ComputeDiff" /\ call.done) =>
        /\ ExactPath(call.oldLines, call.newLines) =>
              MinimalScript(call.out, call.oldLines, call.newLines,
                            LcsLength(call.oldLines, call.newLines))
        /\ (call.oldLines = <<"a", "b", "c">> /\ call.newLines = <<"a", "x", "c">>) =>
              call.out = <<DiffLine(DiffEqual, "a"), DiffLine(DiffDelete, "b"),
                           DiffLine(DiffInsert, "x"), DiffLine(DiffEqual, "c")>>

\* [a,b,c] against [a,x,c] was diffed on the exact path
ExampleDiffed ==
    /\ call.fn = "ComputeDiff" /\ call.done
    /\ call.oldLines = <<"a", "b", "c">> /\ call.newLines = <<"a", "x", "c">>
    /\ ExactPath(call.oldLines, call.newLines)
    /\ Len(call.out) = 4

\* C20: in the result of ComputeDiff no delete entry comes directly after
\* an insert entry, whatever the two texts and the path taken.
NoDeleteAfterInsert ==
    (call.fn = "ComputeDiff" /\ call.done) =>
        \A k \in 1..(Len(call.out) - 1) :
            ~(call.out[k].Op = DiffInsert /\ call.out[k + 1].Op = DiffDelete)

\* the backtrack over the table gave a hunk with a delete and an insert
TieBrokenInHunk ==
    /\ call.fn = "ComputeDiff" /\ call.done
    /\ Len(call.oldLines) + Len(call.newLines) <= maxLCSLines
    /\ \E k \in 1..(Len(call.out) - 1) :
          call.out[k].Op = DiffDelete /\ call.out[k + 1].Op = DiffInsert

\* the lines, each tagged with one operation
Tagged(op, lines) == [k \in 1..Len(lines) |-> [Op |-> op, Text |-> lines[k]]]

DiffDone == call.fn = "ComputeDiff" /\ call.done

LargeInput == Len(call.oldLines) + Len(call.newLines) > maxLCSLines

\* C21: ComputeDiff(x, x) is the lines of x in order, each tagged equal,
\* below and above the threshold.
DiffOfSameIsAllEqual ==
    (DiffDone /\ call.oldLines = call.newLines) => call.out = Tagged(DiffEqual, call.oldLines)

\* a text above the threshold was diffed against itself
SameLargeInputDiffed ==
    DiffDone /\ call.oldLines = call.newLines /\ LargeInput /\ Len(call.out) > 0

\* the longest common prefix of s and t
CommonPrefix(s, t) ==
    CHOOSE k \in 0..Min(Len(s), Len(t)) :
        /\ SubSeq(s, 1, k) = SubSeq(t, 1, k)
        /\ k < Min(Len(s), Len(t)) => s[k + 1] # t[k + 1]

\* the longest common suffix of s and t that leaves their first p lines alone
CommonSuffix(s, t, p) ==
    CHOOSE k \in 0..(Min(Len(s), Len(t)) - p) :
        /\ SubSeq(s, Len(s) - k + 1, Len(s)) = SubSeq(t, Len(t) - k + 1, Len(t))
        /\ k < Min(Len(s), Len(t)) - p => s[Len(s) - k] # t[Len(t) - k]

\* out is p equal lines, a diff of the lines between prefix and suffix,
\* and s equal lines
StrippedAround(out, oldLines, newLines, p, s) ==
    /\ p + s <= Min(Len(oldLines), Len(newLines))
    /\ Len(out) >= p + s
    /\ SubSeq(out, 1, p) = Tagged(DiffEqual, SubSeq(oldLines, 1, p))
    /\ SubSeq(out, Len(out) - s + 1, Len(out))
          = Tagged(DiffEqual, SubSeq(oldLines, Len(oldLines) - s + 1, Len(oldLines)))
    /\ TextsOf(SubSeq(out, p + 1, Len(out) - s), {DiffEqual, DiffDelete})
          = SubSeq(oldLines, p + 1, Len(oldLines) - s)
    /\ TextsOf(SubSeq(out, p + 1, Len(out) - s), {DiffEqual, DiffInsert})
          = SubSeq(newLines, p + 1, Len(newLines) - s)

StrippedAfterPrefix(out, oldLines, newLines, p) ==
    /\ prefixLen(oldLines, newLines, Min(Len(oldLines), Len(newLines)), 0) = p
    /\ suffixLen(oldLines, newLines, Min(Len(oldLines), Len(newLines)) - p, 0)
          = CommonSuffix(oldLines, newLines, p)
    /\ StrippedAround(out, oldLines, newLines, p, CommonSuffix(oldLines, newLines, p))

\* C22: above the threshold the output begins with the longest common
\* prefix as equal entries and ends with the longest common suffix of what
\* remains as equal entries, the two never overlap, and what lies between
\* is a diff of the lines between them only.
LargeInputIsStripped ==
    (DiffDone /\ LargeInput) =>
        StrippedAfterPrefix(call.out, call.oldLines, call.newLines,
                            CommonPrefix(call.oldLines, call.newLines))

\* a large input whose suffix loop was stopped by the prefix: [a,a,a]
\* against [a,a] would share a suffix of two lines
SuffixStoppedByPrefix ==
    /\ DiffDone /\ LargeInput
    /\ CommonPrefix(call.oldLines, call.newLines) > 0
    /\ CommonPrefix(call.oldLines, call.newLines)
          = Min(Len(call.oldLines), Len(call.newLines))
    /\ Len(call.oldLines) # Len(call.newLines)
    /\ Last(call.oldLines) = Last(call.newLines)

\* the lines of the core of a large input: old and new without the common
\* prefix and suffix
CoreOf(lines, p, s) == SubSeq(lines, p + 1, Len(lines) - s)

FlaggedCore(out, oldLines, newLines, p, s) ==
    (Len(CoreOf(oldLines, p, s)) + Len(CoreOf(newLines, p, s)) > maxLCSLines) =>
        SubSeq(out, p + 1, Len(out) - s)
            = Tagged(DiffDelete, CoreOf(oldLines, p, s)) \o Tagged(DiffInsert, CoreOf(newLines, p, s))

FlaggedAfterPrefix(out, oldLines, newLines, p) ==
    FlaggedCore(out, oldLines, newLines, p, CommonSuffix(oldLines, newLines, p))

\* C23: every call of lcs made by ComputeDiff has arguments of at most
\* maxLCSLines lines together, and a stripped core longer than that comes
\* out as all its old lines as deletes, then all its new lines as inserts.
LcsOnlyBelowThreshold ==
    DiffDone =>
        /\ \A c \in lcsCalls(call.oldLines, call.newLines) :
              Len(c[1]) + Len(c[2]) <= maxLCSLines
        /\ LargeInput =>
              FlaggedAfterPrefix(call.out, call.oldLines, call.newLines,
                                 CommonPrefix(call.oldLines, call.newLines))

\* a core above the threshold with a line common to both sides was flagged
CommonLineInFlaggedCore ==
    /\ DiffDone /\ lcsCalls(call.oldLines, call.newLines) = {}
    /\ \E i \in 1..Len(call.oldLines), j \in 1..Len(call.newLines) :
          call.oldLines[i] = call.newLines[j]
    /\ \A k \in 1..Len(call.out) : call.out[k].Op # DiffEqual

ContextDone == call.fn = "ContextDiff" /\ call.done

\* the context size the call asks for, a negative one standing for three
AskedContext == IF call.contextSize < 0 THEN 3 ELSE call.contextSize

\* entry i of diff lies within k positions of an entry that is not equal
NearChange(diff, i, k) ==
    \E j \in 1..Len(diff) : diff[j].Op # DiffEqual /\ i - j <= k /\ j - i <= k

\* the first entries of the maximal runs of entries of diff that are not
\* near a change
DroppedRunStarts(diff, k) ==
    {i \in 1..Len(diff) : /\ ~NearChange(diff, i, k)
                          /\ (i = 1 \/ NearChange(diff, i - 1, k))}

Separators(out) == {i \in 1..Len(out) : out[i].Op = DiffSeparator}

\* the entries of diff near a change, with one separator in place of every
\* run of entries that are not, from entry i on
RECURSIVE WithSeparators(_, _, _)
WithSeparators(diff, k, i) ==
    IF i > Len(diff) THEN <<>>
    ELSE IF NearChange(diff, i, k) THEN <<diff[i]>> \o WithSeparators(diff, k, i + 1)
    ELSE IF i \in DroppedRunStarts(diff, k)
    THEN <<[Op |-> DiffSeparator, Text |-> "@@"]>> \o WithSeparators(diff, k, i + 1)
    ELSE WithSeparators(diff, k, i + 1)

\* C24: when the diff has changes, every maximal run of dropped equal
\* lines - before the first change, between two changes or after the last
\* one - is represented by exactly one separator, and there is no other
\* separator.
OneSeparatorPerDroppedRun ==
    (ContextDone /\ \E i \in 1..Len(call.diff) : call.diff[i].Op # DiffEqual) =>
        call.out = WithSeparators(call.diff, AskedContext, 1)

AllEqual(diff) == \A i \in 1..Len(diff) : diff[i].Op = DiffEqual

\* C25: ContextDiff returns the empty result exactly when the diff has no
\* entry other than equal, the empty diff included.
EmptyIffNoChange ==
    ContextDone => (call.out = <<>> <=> AllEqual(call.diff))

\* a diff of equal lines only, and not empty, was collapsed to nothing
AllEqualCollapsed ==
    ContextDone /\ Len(call.diff) > 1 /\ AllEqual(call.diff) /\ call.out = <<>>

\* the entries of diff within k positions of a change, in order, from
\* entry i on
RECURSIVE KeptEntries(_, _, _)
KeptEntries(diff, k, i) ==
    IF i > Len(diff) THEN <<>>
    ELSE IF NearChange(diff, i, k) THEN <<diff[i]>> \o KeptEntries(diff, k, i + 1)
    ELSE KeptEntries(diff, k, i + 1)

NotSeparator(d) == d.Op # DiffSeparator

\* C26: when the diff has changes, the entries of the result other than
\* separators are the entries of the diff within k positions of a
\* non-equal entry, in order and unmodified; so every change is kept,
\* k = 0 keeps the changes only, and a negative k counts as 3.
KeepsContextOfChanges ==
    (ContextDone /\ ~AllEqual(call.diff)) =>
        /\ SelectSeq(call.out, NotSeparator) = KeptEntries(call.diff, AskedContext, 1)
        /\ call.contextSize = 0 =>
              SelectSeq(call.out, NotSeparator) = SelectSeq(call.diff, LAMBDA d : d.Op # DiffEqual)

\* a negative context size kept three lines after a change and dropped
\* the fourth
NegativeContextKeptThree ==
    /\ ContextDone /\ call.contextSize < 0
    /\ Len(call.diff) = 5 /\ call.diff[1].Op # DiffEqual
    /\ Len(SelectSeq(call.out, NotSeparator)) = 4

\* the table of header phrases, the compound phrases first
PhraseAction(lower) ==
    IF Contains(lower, Phrase(<<"destroyed", "and", "then", "created">>))
    THEN ActionDeleteCreate
    ELSE IF Contains(lower, Phrase(<<"created", "and", "then", "destroyed">>))
    THEN ActionCreateDelete
    ELSE IF \/ Contains(lower, Phrase(<<"is", "tainted">>))
            \/ Contains(lower, Phrase(<<"must", "be", "replaced">>))
            \/ Contains(lower, Phrase(<<"will", "be", "replaced">>)) THEN ActionReplace
    ELSE IF Contains(lower, Phrase(<<"will", "be", "read">>)) THEN ActionRead
    ELSE IF \/ Contains(lower, Phrase(<<"will", "be", "created">>))
            \/ Contains(lower, Phrase(<<"has", "been", "created">>)) THEN ActionCreate
    ELSE IF \/ Contains(lower, Phrase(<<"will", "be", "updated">>))
            \/ Contains(lower, Phrase(<<"has", "been", "changed">>)) THEN ActionUpdate
    ELSE IF \/ Contains(lower, Phrase(<<"will", "be", "destroyed">>))
            \/ Contains(lower, Phrase(<<"must", "be", "destroyed">>)) THEN ActionDestroy
    ELSE ActionUpdate

\* C27: the phrase of a new-format header gives the action of the table:
\* 'destroyed and then created' delete-create, 'created and then destroyed'
\* create-delete, tainted or replaced replace, read read, created create,
\* updated or changed update, destroyed destroy, any other phrase update
HeaderPhraseGivesAction ==
    (call.fn = "parseActionFromLine" /\ call.done) =>
        call.out = PhraseAction(ToLowerWords(call.line))

ParseDone == call.fn = "Parse" /\ call.done

\* a header of the new format: '#' after optional white space, white
\* space, an address, white space, one of the four phrases
IsHeader(line) ==
    \E i \in 1..Len(line), j \in 1..Len(line) :
        /\ \A k \in 1..(i - 1) : line[k] = " "
        /\ line[i] = "#" /\ line[i + 1] = " "
        /\ j >= i + 4 /\ line[j - 1] = " "
        /\ \/ HasAt(line, j, <<"will", " ", "be">>) \/ HasAt(line, j, <<"must", " ", "be">>)
           \/ HasAt(line, j, <<"has", " ", "been">>) \/ HasAt(line, j, <<"is", " ", "tainted">>)

\* the indices in lines of the lines that satisfy Is, in order
RECURSIVE IndicesFrom(_, _, _)
IndicesFrom(lines, Is(_), i) ==
    IF i > Len(lines) THEN <<>>
    ELSE (IF Is(lines[i]) THEN <<i>> ELSE <<>>) \o IndicesFrom(lines, Is, i + 1)

\* the digits of a count of the summary line
Numeral(n) ==
    LET digit(d) == CASE d = 0 -> "0" [] d = 1 -> "1" [] d = 2 -> "2"
    IN  IF n < 10 THEN <<digit(n)>> ELSE <<digit(n \div 10), digit(n % 10)>>

SummaryCounts == {0, 1, 2, 10, 11, 12, 20, 21, 22}

\* 'Plan: x to add, ', then 'y to change, ', then 'z to destroy'
SummaryAdd(x) ==
    <<"Plan", ":", " ">> \o Numeral(x) \o <<" ", "to", " ", "add,", " ">>

SummaryChange(x, y) ==
    SummaryAdd(x) \o Numeral(y) \o <<" ", "to", " ", "change,", " ">>

SummaryLine(x, y, z) ==
    SummaryChange(x, y) \o Numeral(z) \o <<" ", "to", " ", "destroy">>

IsSummary(line) ==
    \E x \in SummaryCounts :
        /\ HasAt(line, 1, SummaryAdd(x))
        /\ \E y \in SummaryCounts :
              /\ HasAt(line, 1, SummaryChange(x, y))
              /\ \E z \in SummaryCounts : HasAt(line, 1, SummaryLine(x, y, z))

\* the totals of p are the counts of the summary line
TotalsOf(p, line) ==
    \A x \in SummaryCounts :
        HasAt(line, 1, SummaryAdd(x)) =>
            \A y \in SummaryCounts :
                HasAt(line, 1, SummaryChange(x, y)) =>
                    \A z \in SummaryCounts :
                        HasAt(line, 1, SummaryLine(x, y, z)) =>
                            (p.TotalAdd = x /\ p.TotalChange = y /\ p.TotalDestroy = z)

\* the totals are those of the first summary line
TotalsAre(p, lines, summaries) ==
    summaries # <<>> => TotalsOf(p, lines[summaries[1]])

\* the action of a header with one of the plain phrases
PlainAction(header, action) ==
    /\ Contains(header, Phrase(<<"will", "be", "created">>)) => action = ActionCreate
    /\ Contains(header, Phrase(<<"will", "be", "updated">>)) => action = ActionUpdate
    /\ Contains(header, Phrase(<<"will", "be", "destroyed">>)) => action = ActionDestroy

\* one resource for each header, in the order of the headers, each with
\* its header as first raw line
OnePerHeader(resources, lines, headers) ==
    /\ Len(resources) = Len(headers)
    /\ \A k \in 1..Len(headers) :
          /\ resources[k].RawLines[1] = lines[headers[k]]
          /\ PlainAction(lines[headers[k]], resources[k].Action)

\* C28: on new-format input Parse gives exactly one resource for each
\* header line, in the order of the headers, each starting with its header
\* as first raw line (a create, update or destroy header giving that
\* action), and a line 'Plan: X to add, Y to change, Z to destroy' (the
\* first one) sets the totals to X, Y and Z
NewFormatOneResourcePerHeader ==
    (ParseDone /\ isNewFormat(Split(call.input, "\n"))) =>
        /\ OnePerHeader(call.out.plan.Resources, Split(call.input, "\n"),
                        IndicesFrom(Split(call.input, "\n"), IsHeader, 1))
        /\ TotalsAre(call.out.plan, Split(call.input, "\n"),
                     IndicesFrom(Split(call.input, "\n"), IsSummary, 1))

\* a create, an update and a destroy header and the summary 1/1/1 parsed
\* to three resources
ThreeHeadersParsed ==
    /\ ParseDone
    /\ Len(IndicesFrom(Split(call.input, "\n"), IsHeader, 1)) = 3
    /\ \E i \in DOMAIN Split(call.input, "\n") :
          HasAt(Split(call.input, "\n")[i], 1, SummaryLine(1, 1, 1))
    /\ Len(call.out.plan.Resources) = 3
    /\ [k \in 1..3 |-> call.out.plan.Resources[k].Action]
          = <<ActionCreate, ActionUpdate, ActionDestroy>>
    /\ call.out.plan.TotalAdd = 1 /\ call.out.plan.TotalChange = 1
    /\ call.out.plan.TotalDestroy = 1

\* a line that starts with one of the old-format symbols and a space
HasOldPrefix(line, symbols) == \E s \in symbols : HasAt(line, 1, <<s, " ">>)

\* no line of the input can be taken for a resource header of either format
NoHeader(lines) ==
    \A i \in DOMAIN lines :
        ~IsHeader(lines[i]) /\ ~HasOldPrefix(lines[i], {"+", "-", "~", "-/+", "+/-"})

PlanFields == {"Resources", "Summary", "TotalAdd", "TotalChange", "TotalDestroy", "RawPlan"}

\* C29: Parse is total: on every input it returns a plan and a nil error;
\* an input without a resource header gives no resources; an input without
\* a summary line gives totals of zero and the resources as the format's
\* parser left them
ParseIsTotal ==
    ParseDone =>
        /\ call.out.err = "nil"
        /\ DOMAIN call.out.plan = PlanFields
        /\ call.out.plan.RawPlan = call.input
        /\ NoHeader(Split(call.input, "\n")) => call.out.plan.Resources = <<>>
        /\ IndicesFrom(Split(call.input, "\n"), IsSummary, 1) = <<>> =>
              /\ call.out.plan.TotalAdd = 0 /\ call.out.plan.TotalChange = 0
              /\ call.out.plan.TotalDestroy = 0
              /\ call.out.plan.Resources
                    = parsedPlan(call.input, Split(call.input, "\n")).Resources

\* an input with resources and without a summary line was parsed
ParsedWithoutSummary ==
    /\ ParseDone
    /\ IndicesFrom(Split(call.input, "\n"), IsSummary, 1) = <<>>
    /\ Len(call.out.plan.Resources) = 2
    /\ call.out.plan.TotalAdd = 0

NoColon(line) == \A i \in DOMAIN line : line[i] # ":"

NonBlank(line) == \E i \in DOMAIN line : line[i] # " "

\* the lines said to start a resource: '+ ', '- ' or '~ ' without a colon,
\* '-/+ ' or '+/- ' with or without
SaidToStart(line) ==
    \/ HasOldPrefix(line, {"+", "-", "~"}) /\ NoColon(line)
    \/ HasOldPrefix(line, {"-/+", "+/-"})

\* the same with at least one more character after the symbol and the space
StartsWithText(line) == SaidToStart(line) /\ Len(line) >= 3

\* the action of a resource that a '+ ', '- ' or '~ ' line starts
SymbolAction(line, action) ==
    /\ line[1] = "+" => action = ActionCreate
    /\ line[1] = "-" => action = ActionDestroy
    /\ line[1] = "~" => action = ActionUpdate

\* parseOldFormatResourceLine takes exactly the lines of Starts for
\* resource lines
ResourceLineIs(Starts(_)) ==
    (call.fn = "parseOldFormatResourceLine" /\ call.done) =>
        /\ call.out # <<>> <=> Starts(call.line)
        /\ call.out # <<>> => SymbolAction(call.line, call.out[2])

\* an attribute line: white space, a name, a colon
AttrShape(line) ==
    line # <<>> /\ line[1] = " " /\ \E i \in 3..Len(line) : line[i] = ":"

\* the index of the line after the block of the resource that starts at
\* index from
NextStart(lines, starts, k) == IF k < Len(starts) THEN starts[k + 1] ELSE Len(lines) + 1

\* resource r holds line first and the non-blank lines of rest, and one
\* attribute, named as the line says, for each of them of the shape
HoldsBlock(r, first, rest) ==
    /\ r.RawLines = <<first>> \o SelectSeq(rest, NonBlank)
    /\ Len(r.Attributes) = Len(SelectSeq(rest, AttrShape))
    /\ \A j \in 1..Len(r.Attributes) :
          r.Attributes[j].Name
              = TrimSpace(SubSeq(SelectSeq(rest, AttrShape)[j], 1,
                                 IndexOf(SelectSeq(rest, AttrShape)[j], <<":">>) - 1))

\* each line of starts starts a resource, and the lines up to the next
\* one go to it
BlocksAre(resources, lines, starts) ==
    /\ Len(resources) = Len(starts)
    /\ \A k \in 1..Len(starts) :
          HoldsBlock(resources[k], lines[starts[k]],
                     SubSeq(lines, starts[k] + 1, NextStart(lines, starts, k) - 1))

\* on old-format input the lines of Starts, and no others, start resources;
\* the other non-blank lines go to the resource before them
OldFormatBlocksAre(Starts(_)) ==
    (ParseDone /\ ~isNewFormat(Split(call.input, "\n"))) =>
        BlocksAre(call.out.plan.Resources, Split(call.input, "\n"),
                  IndicesFrom(Split(call.input, "\n"), Starts, 1))

Dots(address) == {i \in DOMAIN address : address[i] = "."}

\* the segment of an address that ends before the dot at index end (or
\* before the end of the address, for end = Len(address) + 1)
SegmentBefore(address, end) ==
    SubSeq(address, Most({0} \cup {i \in Dots(address) : i < end}) + 1, end - 1)

\* type is the second-to-last segment and name the last; both are empty
\* for an address of one segment
TypeAndNameOf(r) ==
    IF Dots(r.Address) = {} THEN r.Type = <<>> /\ r.Name = <<>>
    ELSE /\ r.Name = SegmentBefore(r.Address, Len(r.Address) + 1)
         /\ r.Type = SegmentBefore(r.Address, Most(Dots(r.Address)))

\* C31: for every resource address of at least two segments between dots,
\* in both formats, type is the second-to-last segment and name the last;
\* an address of one segment leaves type and name empty
TypeAndNameFromAddress ==
    /\ (call.fn = "parseResourceAddress" /\ call.done) =>
          (TypeAndNameOf(call.out) /\ call.out.Address = call.r.Address)
    /\ ParseDone =>
          \A k \in DOMAIN call.out.plan.Resources :
              TypeAndNameOf(call.out.plan.Resources[k])

\* module.foo.aws_instance.bar decomposed to type aws_instance, name bar
ModuleAddressDecomposed ==
    /\ call.fn = "parseResourceAddress" /\ call.done
    /\ call.r.Address = <<"module", ".", "foo", ".", "aws_instance", ".", "bar">>
    /\ call.out.Type = <<"aws_instance">> /\ call.out.Name = <<"bar">>

\* the scalar value that the first k bytes of b would encode: the payload
\* bits of the first byte and six bits of each following one
ScalarOf(b, k) ==
    CASE k = 1 -> b[1]
      [] k = 2 -> (b[1] % 32) * 64 + (b[2] % 64)
      [] k = 3 -> (b[1] % 16) * 4096 + (b[2] % 64) * 64 + (b[3] % 64)
      [] OTHER -> (b[1] % 8) * 262144 + (b[2] % 64) * 4096 + (b[3] % 64) * 64 + (b[4] % 64)

\* the UTF-8 encoding of a Unicode scalar value
EncodeScalar(n) ==
    CASE n < 128 -> <<n>>
      [] n \in 128..2047 -> <<192 + (n \div 64), 128 + (n % 64)>>
      [] n \in 2048..65535 ->
            <<224 + (n \div 4096), 128 + ((n \div 64) % 64), 128 + (n % 64)>>
      [] OTHER ->
            <<240 + (n \div 262144), 128 + ((n \div 4096) % 64),
              128 + ((n \div 64) % 64), 128 + (n % 64)>>

\* the scalar values: the code points up to U+10FFFF but the surrogates
IsScalar(n) == n \in 0..1114111 /\ n \notin 55296..57343

\* text is a sequence of encodings of scalar values
RECURSIVE IsUtf8Text(_)
IsUtf8Text(b) ==
    \/ b = <<>>
    \/ \E k \in 1..4 :
          /\ k <= Len(b)
          /\ IsScalar(ScalarOf(b, k))
          /\ EncodeScalar(ScalarOf(b, k)) = SubSeq(b, 1, k)
          /\ IsUtf8Text(SubSeq(b, k + 1, Len(b)))

UserdataDone == call.fn = "TryDecodeUserdata" /\ call.done

\* every stage of the decoding of call.s fails or panics
EveryStageFails ==
    /\ ~tryBase64Variants(stripBase64Whitespace(call.s), call.gz).ok
    /\ ~tryHexDecode(call.s).ok

\* C32: TryDecodeUserdata fails closed: it returns ok only with a text
\* that is valid UTF-8 without a NUL byte; it returns ("", false) for the
\* empty string, for null, for a value that starts with '(' and for a
\* value on which every decoding stage fails or panics; and no panic
\* leaves it
UserdataFailsClosed ==
    UserdataDone =>
        /\ ~call.out.panic
        /\ call.out.ok =>
              /\ IsUtf8Text(call.out.result)
              /\ \A i \in DOMAIN call.out.result : call.out.result[i] # 0
        /\ ~call.out.ok => call.out.result = <<>>
        /\ (\/ call.s = <<>>
            \/ call.s = <<"n", "u", "l", "l">>
            \/ (call.s # <<>> /\ call.s[1] = "(")
            \/ EveryStageFails) => (call.out.result = <<>> /\ ~call.out.ok)

\* a value that decodes to a gzip stream on which the reader panicked
\* gave ("", false)
GzipPanicRecovered ==
    /\ UserdataDone
    /\ call.gz.kind = "panic"
    /\ call.s = <<"H", "4", "s", "=">>
    /\ call.out = [result |-> <<>>, ok |-> FALSE, panic |-> FALSE]

\* the base64 of the tests decoded to hello
HelloDecoded ==
    /\ UserdataDone
    /\ call.s = <<"a", "G", "V", "s", "\n", "b", "G", "8", "=">>
    /\ call.out.ok /\ call.out.result = <<104, 101, 108, 108, 111>>

\* the texts of the entries of diff that a side has: the old side has the
\* equal and the deleted lines, the new side the equal and the inserted
RECURSIVE SideOf(_, _)
SideOf(diff, own) ==
    IF diff = <<>> THEN <<>>
    ELSE IF Head(diff).Op \in {DiffEqual, own}
    THEN <<Head(diff).Text>> \o SideOf(Tail(diff), own)
    ELSE SideOf(Tail(diff), own)

\* C33: on every path the result of ComputeDiff reconstructs both texts:
\* the texts of its equal and delete entries, in order, are old, those of
\* its equal and insert entries are new, and no entry is a separator
DiffReconstructsBoth ==
    DiffDone =>
        /\ SideOf(call.out, DiffDelete) = call.oldLines
        /\ SideOf(call.out, DiffInsert) = call.newLines
        /\ \A k \in DOMAIN call.out :
              call.out[k].Op \in {DiffEqual, DiffInsert, DiffDelete}

\* a large input with a common first line before a core too long for
\* the table came out as that line, the deletes and then the inserts
ApproximatedAfterEqualLine ==
    /\ DiffDone /\ LargeInput
    /\ ~ExactPath(call.oldLines, call.newLines)
    /\ call.out[1].Op = DiffEqual
    /\ call.out[2].Op = DiffDelete
    /\ call.out[Len(call.out)].Op = DiffInsert
    /\ \E k \in DOMAIN call.oldLines : \E j \in DOMAIN call.newLines :
          k > 1 /\ j > 1 /\ call.oldLines[k] = call.newLines[j]

\* a search is shown in Normal mode: the query is set and the displayed
\* list holds its matches, at least one
SearchShown(md, pl) ==
    /\ ~md.searching /\ ~md.filtering /\ ~md.sorting
    /\ md.searchQuery # <<>>
    /\ Len(md.searchMatches) >= 1
    /\ Len(displayedResourceIndices(md, pl)) >= 1

\* the counter of the search bar is at the cursor, among the k matches,
\* and n and N move the cursor one match on and one back from where it
\* is, around the ends
MatchKeysFrom(md, pl, k) ==
    /\ md.currentMatch = md.cursor
    /\ md.currentMatch \in 0..(k - 1)
    /\ UpdateKey(md, "n", pl).m.cursor = (md.cursor + 1) % k
    /\ UpdateKey(md, "N", pl).m.cursor = (md.cursor + k - 1) % k

\* C34: while a search shows k >= 1 matches, n moves the cursor one match
\* forward from where the cursor is and N one back, wrapping, and the
\* counter of current matches shown equals the cursor and lies in
\* 0..k-1, also after j and k moved the cursor
MatchKeysFollowCursor ==
    (status = "running" /\ SearchShown(m, plan)) =>
        MatchKeysFrom(m, plan, Len(displayedResourceIndices(m, plan)))

\* C35: in the history picker the cursor is never negative and, while
\* the filtered list is non-empty, is an index of it, so that Enter and
\* Space never index outside the list; also after 'd' or 'u' on a search
\* without results followed by clearing the search
PickerCursorValid ==
    call.fn = "RunPicker" =>
        /\ call.m.cursor >= 0
        /\ Len(call.m.filtered) > 0 => call.m.cursor < Len(call.m.filtered)
        /\ call.status # "panic"

\* what the expansion keys leave alone
SameListState(md, after) ==
    /\ after.cursor = md.cursor
    /\ after.statusFilters = md.statusFilters
    /\ after.sortOrder = md.sortOrder
    /\ after.searchQuery = md.searchQuery
    /\ after.searchMatches = md.searchMatches

\* after has the expansion v on the resources of shown and that of md on
\* the others
ExpansionSetOn(md, after, shown, v) ==
    /\ DOMAIN after.expanded = DOMAIN md.expanded
    /\ \A i \in DOMAIN md.expanded :
          after.expanded[i] = IF i \in shown THEN v ELSE md.expanded[i]
    /\ SameListState(md, after)

\* the displayed resource at the cursor, as a set of plan indices: empty
\* when the cursor is on no displayed resource
AtCursor(displayed, cursor) ==
    {displayed[k] : k \in {j \in DOMAIN displayed : j = cursor + 1}}

\* the keys that expand, collapse and toggle the resource at the cursor
ExpansionKeysAt(md, pl, here) ==
    /\ \A key \in {"l", "right"} :
          ExpansionSetOn(md, UpdateKey(md, key, pl).m, here, TRUE)
    /\ \A key \in {"h", "left", "backspace"} :
          ExpansionSetOn(md, UpdateKey(md, key, pl).m, here, FALSE)
    /\ \A key \in {"enter", " "} :
          /\ \A i \in here :
                ExpansionSetOn(md, UpdateKey(md, key, pl).m, here, ~md.expanded[i])
          /\ here = {} => ExpansionSetOn(md, UpdateKey(md, key, pl).m, here, TRUE)
          /\ UpdateKey(UpdateKey(md, key, pl).m, key, pl).m.expanded = md.expanded

\* C36: 'e' and 'c' set the expansion of exactly the displayed resources
\* and leave that of the hidden ones, the cursor, the filter, the sort and
\* the search as they are; Enter, Space, 'l' and 'h' change the expansion
\* of the resource displayed at the cursor only, by its index in the plan,
\* and toggling twice restores the expansion set
ExpansionKeysChangeDisplayedOnly ==
    (Running /\ ~m.searching /\ ~m.filtering /\ ~m.sorting) =>
        /\ ExpansionSetOn(m, UpdateKey(m, "e", plan).m,
                          Range(displayedResourceIndices(m, plan)), TRUE)
        /\ ExpansionSetOn(m, UpdateKey(m, "c", plan).m,
                          Range(displayedResourceIndices(m, plan)), FALSE)
        /\ ExpansionKeysAt(m, plan, AtCursor(displayedResourceIndices(m, plan), m.cursor))

\* an expanded resource is hidden by the filter or the search while a
\* collapsed one is displayed, before the last message of the session
HiddenExpandedBesideCollapsed ==
    /\ Running /\ ~m.searching /\ ~m.filtering /\ ~m.sorting
    /\ \E i \in DOMAIN m.expanded :
          m.expanded[i] /\ i \notin Range(displayedResourceIndices(m, plan))
    /\ \E i \in Range(displayedResourceIndices(m, plan)) : ~m.expanded[i]

\* the offset n lines further down, kept between the top and the last
\* offset of the content
OffsetMoved(vp, n) == Max(0, Min(vp.YOffset + n, Max(0, vp.lines - vp.Height)))

\* the key moves the offset by n lines and leaves the cursor
KeyScrollsBy(md, after, n) ==
    /\ after.viewport.YOffset = OffsetMoved(md.viewport, n)
    /\ after.cursor = md.cursor

\* PgUp after an unclamped PgDown comes back to the offset it left
PageUpUndoesPageDown(md, pl, down) ==
    down.viewport.YOffset = md.viewport.YOffset + md.viewport.Height =>
        UpdateKey(down, "pgup", pl).m.viewport.YOffset = md.viewport.YOffset

\* C38: PgDown moves the offset of the viewport down by its height and
\* PgUp up by its height, clamped at the top, so that PgUp after PgDown
\* restores the offset when neither was clamped; 'd' and 'u' move it by
\* half the height; none of them moves the cursor
PageKeysMoveByHeight ==
    (status = "running" /\ ~m.searching /\ ~m.filtering /\ ~m.sorting) =>
        /\ KeyScrollsBy(m, UpdateKey(m, "pgdown", plan).m, m.viewport.Height)
        /\ KeyScrollsBy(m, UpdateKey(m, "pgup", plan).m, 0 - m.viewport.Height)
        /\ PageUpUndoesPageDown(m, plan, UpdateKey(m, "pgdown", plan).m)
        /\ KeyScrollsBy(m, UpdateKey(m, "d", plan).m, m.viewport.Height \div 2)
        /\ KeyScrollsBy(m, UpdateKey(m, "u", plan).m, 0 - (m.viewport.Height \div 2))

\* q, pressed on the model that Escape returned without ending the
\* program, ends it with Quit and without applying
QuitAfter(esc, pl) ==
    /\ esc.cmd # "quit"
    /\ UpdateKey(esc.m, "q", pl).cmd = "quit"
    /\ ~UpdateKey(esc.m, "q", pl).m.shouldApply

\* the key ends the program without applying
QuitsUnapplied(r) == r.cmd = "quit" /\ ~r.m.shouldApply

\* C37: from every reachable state of the viewer, in any mode and with or
\* without the confirmation armed, Escape followed by q ends the program
\* with Quit and shouldApply false; q and Ctrl+C in Normal mode with the
\* confirmation armed quit without applying
EscapeThenQuitEnds ==
    status = "running" =>
        /\ QuitAfter(UpdateKey(m, "esc", plan), plan)
        /\ (m.confirmApply /\ ~m.searching /\ ~m.filtering /\ ~m.sorting) =>
              /\ QuitsUnapplied(UpdateKey(m, "q", plan))
              /\ QuitsUnapplied(UpdateKey(m, "ctrl+c", plan))

\* the program was ended by a key other than 'a' and 'y' pressed in
\* Normal mode with the confirmation armed, and nothing is applied
QuitWhileArmed ==
    /\ status = "quit"
    /\ last.kind = "key" /\ last.mode = "confirm" /\ last.key = "other"
    /\ ~m.shouldApply

\* the filter picker can toggle: the map is made and the cursor is on one
\* of the filterable actions
FilterPickerSound(md) ==
    /\ ~md.statusFilters.isNil
    /\ md.filterCursor \in 0..(Len(filterableActions) - 1)

\* the sort picker can select: the cursor is on one of the sort options
SortPickerSound(md) == md.sortCursor \in 0..(Len(sortOptions) - 1)

\* a key of a picker does not panic and leaves an open picker sound
PickerKeySound(r) ==
    /\ r.cmd # "panic"
    /\ r.m.filtering => FilterPickerSound(r.m)
    /\ r.m.sorting => SortPickerSound(r.m)

\* the keys of the open filter picker, with its cursor on any row
FilterPickerKeysSound(md, pl) ==
    \A row \in 0..(Len(filterableActions) - 1) :
        \A key \in {"j", "down", "k", "up", " ", "a", "c"} :
            PickerKeySound(UpdateKey([md EXCEPT !.filterCursor = row], key, pl))

\* the sort picker opens with its cursor on the current sort order
OpensOnSortOrder(md, opened) ==
    /\ opened.sorting /\ SortPickerSound(opened)
    /\ At(sortOptions, opened.sortCursor) = md.sortOrder

\* C39: while the filter picker is open the map of status filters is not
\* nil and filterCursor is an index of the filterable actions; while the
\* sort picker is open sortCursor is an index of the sort options, and it
\* opens on the current sort order; toggling and selecting in a picker
\* neither writes to a nil map nor indexes out of range
PickerCursorsAreIndices ==
    /\ status # "panic"
    /\ status = "running" =>
          /\ m.filtering => (FilterPickerSound(m) /\ FilterPickerKeysSound(m, plan))
          /\ m.sorting => SortPickerSound(m)
          /\ (~m.filtering /\ m.sorting) =>
                \A key \in {"j", "down", "k", "up", "enter", " "} :
                    PickerKeySound(UpdateKey(m, key, plan))
          /\ (~m.filtering /\ ~m.sorting /\ ~m.searching) =>
                /\ OpensOnSortOrder(m, UpdateKey(m, "s", plan).m)
                /\ FilterPickerSound(UpdateKey(m, "f", plan).m)

\* the sort picker was opened again on the order chosen before, which is
\* not the first option
SortPickerReopenedOnOrder ==
    /\ status = "running" /\ m.sorting
    /\ m.sortOrder # SortDefault
    /\ m.sortCursor > 0
    /\ At(sortOptions, m.sortCursor) = m.sortOrder
    /\ last.kind = "key" /\ last.mode = "normal"

============================================================================
